---- MODULE Spec2Model ----
(***************************************************************************)
(* DriveIQ driving-behaviour inference pipeline.                           *)
(*                                                                         *)
(*   backend/app/ml/feature_builder.py    make_windows                     *)
(*   backend/app/ml/predictor.py          predict_from_dataframe           *)
(*   ml-model/src/preprocessing_inference.py                               *)
(*        build_10hz_timebase, preprocess_session_from_json,               *)
(*        create_windows_inference, run_classification                     *)
(*   ml-model/src/knn_alerts_inference.py                                  *)
(*        load_knn_components, run_full_knn_pipeline,                      *)
(*        run_knn_alerts, build_session_summary                            *)
(*   ml-model/notebooks/phase3_OUTDATED.py                                 *)
(*        compute_feature_contributions, compute_cause_contributions,      *)
(*        compute_intensity, generate_alert                                *)
(*   backend/app/ml/keras_runtime.py      load_artifacts                   *)
(*   backend/app/main.py                                                   *)
(*        book_slot, cancel_booking, start_session, end_session            *)
(*                                                                         *)
(* Encodings.  A Python string is a tuple of one-character strings, so     *)
(* that strip() and lower() are computed.  A float is an integer (sensor   *)
(* values) or an integer count of 1/UnitsPerTick of a timeline tick        *)
(* (timestamps); NaN is one reserved integer.  A DataFrame is a record of  *)
(* its ordered column names, its row count and one value sequence per      *)
(* column.  A numpy 2-D array is a sequence of rows, each a tuple.         *)
(***************************************************************************)
EXTENDS Integers, Sequences, FiniteSets, TLC

VARIABLES
    pc,           \* "ready" | "called" | "again" | "summarised": position of the caller;
                  \* per request, the next database call of its handler
    op,           \* the function the caller invokes
    df,           \* the caller's DataFrame object (make_windows, predict_from_dataframe)
    df0,          \* that frame as the caller built it, before any call (history)
    args,         \* the other arguments of the call
    ret,          \* what the first call returned or raised
    ret2,         \* what a second call on the same objects returned
    sensor_json,  \* the session bundle handed to the ml-model entry points
    schema,       \* feature_schema.json as found on disk
    probs,        \* what model.predict returned inside the call (history)
    disk,         \* the artifacts directory of the backend: files present, schema content
    cache,        \* the lru_cache around load_artifacts: its entry and counters
    local,        \* the locals of a call in progress (per thread in the artifact loader)
    db            \* the MongoDB collections the request handlers read and write

vars == <<pc, op, df, df0, args, ret, ret2, sensor_json, schema, probs, disk, cache, local, db>>

\* the state of the artifact loader, which only the loader's actions touch
artifact_vars == <<disk, cache, local>>

\* value of a variable a specification does not use
Unused == <<>>

\* the artifact loader is not part of the specification
NoArtifactLoader == disk = Unused /\ cache = Unused /\ local = Unused

\* outside the database-backed handlers there is no database
NoDatabase == db = Unused

(***************************************************************************)
(* Python values                                                           *)
(***************************************************************************)

\* Python's None, where a str is expected
None == <<"None">>

\* float("nan") in a numeric column
NaN == -(2^30)

Range(s) == {s[i] : i \in 1..Len(s)}

Min(a, b) == IF a <= b THEN a ELSE b

Max(a, b) == IF a >= b THEN a ELSE b

UpperAlpha == <<"A","B","C","D","E","F","G","H","I","J","K","L","M",
                "N","O","P","Q","R","S","T","U","V","W","X","Y","Z">>

LowerAlpha == <<"a","b","c","d","e","f","g","h","i","j","k","l","m",
                "n","o","p","q","r","s","t","u","v","w","x","y","z">>

Whitespace == {" ", "\t", "\n"}

\* str.lower()
StrLower(s) ==
    [i \in 1..Len(s) |->
        IF \E k \in 1..26 : UpperAlpha[k] = s[i]
        THEN LowerAlpha[CHOOSE k \in 1..26 : UpperAlpha[k] = s[i]]
        ELSE s[i]]

\* str.strip()
StrStrip(s) ==
    LET keep == {i \in 1..Len(s) : s[i] \notin Whitespace}
    IN  IF keep = {} THEN <<>>
        ELSE LET lo == CHOOSE i \in keep : \A j \in keep : i <= j
                 hi == CHOOSE i \in keep : \A j \in keep : i >= j
             IN  SubSeq(s, lo, hi)

\* (road_type or "")
OrEmpty(s) == IF s = None \/ s = <<>> THEN <<>> ELSE s

\* numpy float32 conversion of a float64 holding an integer below 2^25:
\* 24 significand bits, round half to even
AsFloat32(v) ==
    IF v = NaN THEN NaN
    ELSE LET a == IF v < 0 THEN -v ELSE v
             r == IF a <= 2^24 THEN a
                  ELSE IF a % 2 = 0 THEN a
                  ELSE IF ((a - 1) \div 2) % 2 = 0 THEN a - 1 ELSE a + 1
         IN  IF v < 0 THEN -r ELSE r

\* len(range(start, stop, step)) for step >= 1, as CPython computes it
PyRangeLen(start, stop, step) ==
    IF start < stop THEN 1 + ((stop - 1 - start) \div step) ELSE 0

\* range(start, stop, step) for step >= 1: item k is start + k * step
PyRange(start, stop, step) ==
    [k \in 1..PyRangeLen(start, stop, step) |-> start + (k - 1) * step]

(***************************************************************************)
(* Road-type literals of the source                                        *)
(***************************************************************************)

s_motor == <<"m","o","t","o","r">>

s_motorway == <<"m","o","t","o","r","w","a","y">>

s_highway == <<"h","i","g","h","w","a","y">>

s_secondary == <<"s","e","c","o","n","d","a","r","y">>

s_Motorway == <<"M","o","t","o","r","w","a","y">>

s_Secondary == <<"S","e","c","o","n","d","a","r","y">>

s_gravel == <<"g","r","a","v","e","l">>

s_MOTOR_padded == <<" ","M","O","T","O","R"," ">>

\* the stride constants of feature_builder.py
MOTOR_STRIDE == 240

SECONDARY_STRIDE == 260

(***************************************************************************)
(* DataFrames                                                              *)
(***************************************************************************)

\* pd.DataFrame with the given columns, each a sequence of nrows values
DataFrame(columns, nrows, cells) ==
    [columns |-> columns, nrows |-> nrows, cells |-> cells]

\* df[c] = 0.0 : a new last column of zeros, or an existing one overwritten
SetColumnZero(d, c) ==
    [columns |-> IF c \in Range(d.columns) THEN d.columns ELSE Append(d.columns, c),
     nrows   |-> d.nrows,
     cells   |-> [k \in Range(d.columns) \cup {c} |->
                     IF k = c THEN [i \in 1..d.nrows |-> 0] ELSE d.cells[k]]]

\* for c in feature_cols: if c not in df.columns: df[c] = 0.0
RECURSIVE FillMissingColumns(_, _)
FillMissingColumns(d, cols) ==
    IF cols = <<>> THEN d
    ELSE FillMissingColumns(
            IF Head(cols) \in Range(d.columns) THEN d ELSE SetColumnZero(d, Head(cols)),
            Tail(cols))

\* df[cols] : a new frame holding the named columns in the order named
SelectColumns(d, cols) ==
    [columns |-> cols, nrows |-> d.nrows, cells |-> [k \in Range(cols) |-> d.cells[k]]]

\* df.drop(columns=[c]) : a new frame
DropColumn(d, c) ==
    LET keep == SelectSeq(d.columns, LAMBDA k : k # c)
    IN  [columns |-> keep, nrows |-> d.nrows, cells |-> [k \in Range(keep) |-> d.cells[k]]]

\* df.values / df.to_numpy(): row i is the tuple of the columns' values
ToNumpy(d) ==
    [i \in 1..d.nrows |-> [j \in 1..Len(d.columns) |-> d.cells[d.columns[j]][i]]]

\* arr.astype("float32")
AsTypeFloat32(x) ==
    [i \in 1..Len(x) |-> [j \in 1..Len(x[i]) |-> AsFloat32(x[i][j])]]

(***************************************************************************)
(* Windower                                                                *)
(***************************************************************************)

\* mutant: the road type is ignored and every call strides like a motorway one
MakeWindowsStride_AlwaysMotor(road_type) == MOTOR_STRIDE

\* feature_builder.make_windows: the stride of a road-type tag
MakeWindowsStride(road_type) ==
    IF StrLower(StrStrip(OrEmpty(road_type))) \in {s_motor, s_motorway, s_highway}
    THEN MOTOR_STRIDE
    ELSE SECONDARY_STRIDE

\* mutant: the loop stops one row early, range(0, n - window_size, stride)
SliceWindows_StopEarly(x, window_size, stride) ==
    LET starts == PyRange(0, Len(x) - window_size, stride)
    IN  [X    |-> [k \in 1..Len(starts) |->
                     SubSeq(x, starts[k] + 1, starts[k] + window_size)],
         idxs |-> starts]

\* the windowing loop shared by both windowers: x[start : start + window_size]
SliceWindows(x, window_size, stride) ==
    LET starts == PyRange(0, Len(x) - window_size + 1, stride)
    IN  [X    |-> [k \in 1..Len(starts) |->
                     SubSeq(x, starts[k] + 1, starts[k] + window_size)],
         idxs |-> starts]

\* feature_builder.make_windows(df, feature_cols, window_size, road_type):
\* X, idxs, and the caller's frame as the call leaves it
make_windows(d, feature_cols, window_size, road_type) ==
    LET stride == MakeWindowsStride(road_type)
        filled == FillMissingColumns(d, feature_cols)
        x      == AsTypeFloat32(ToNumpy(SelectColumns(filled, feature_cols)))
        w      == SliceWindows(x, window_size, stride)
    IN  [X |-> w.X, idxs |-> w.idxs, df |-> filled]

\* preprocessing_inference.create_windows_inference(df, window_size, stride)
create_windows_inference(d, window_size, stride) ==
    SliceWindows(ToNumpy(d), window_size, stride).X

(***************************************************************************)
(* Windower in isolation: one caller, one frame, the call made twice        *)
(***************************************************************************)

\* largest frame handed to a windower
MaxRows == 530

\* every frame of at most SmallRows rows is tried
SmallRows == 6

\* window lengths 1..SmallWindow are tried beside the overlapping one
SmallWindow == 2

\* a window longer than either stride, so that consecutive windows overlap
OverlapWindow == 270

\* strides 1..SmallStride are tried, on the short frames, beside the two of the source
SmallStride == 2

WindowLens == (1..SmallWindow) \cup {OverlapWindow}

Strides == (1..SmallStride) \cup {MOTOR_STRIDE, SECONDARY_STRIDE}

c_speed == "speed_kmh"

c_acc == "acc_x"

c_label == "label"

AllColumns == <<c_speed, c_acc, c_label>>

ColumnIndex(c) == CHOOSE j \in 1..Len(AllColumns) : AllColumns[j] = c

\* first value of the generated columns: rows past 2^24 - FirstValue hold
\* integers a float32 cannot represent
FirstValue == 2^24 - 200

\* the frame a caller holds: column c, row i holds FirstValue + i + 1000 * index(c)
GenFrame(columns, nrows) ==
    DataFrame(columns, nrows,
              [c \in Range(columns) |->
                  [i \in 1..nrows |-> FirstValue + i + 1000 * (ColumnIndex(c) - 1)]])

DfColumnChoices == {<<c_speed, c_acc>>, <<c_acc, c_label, c_speed>>, <<c_acc>>}

FeatureOrders == {<<c_speed, c_acc>>, <<c_acc, c_speed>>}

WinRoadTypes == {s_motorway, s_secondary, s_MOTOR_padded}

\* row counts at which a window of the source's strides starts or stops fitting
WindowEdges ==
    {w + k * s : w \in WindowLens, s \in {MOTOR_STRIDE, SECONDARY_STRIDE}, k \in 0..2}

\* the frames tried: the short ones, and those one row around a window edge
RowCounts ==
    {n \in 0..MaxRows : n <= SmallRows \/ \E b \in WindowEdges : n \in (b - 1)..(b + 1)}

InitWin ==
    /\ pc = "ready"
    /\ \E n \in RowCounts, cols \in DfColumnChoices : df = GenFrame(cols, n)
    /\ df0 = df
    /\ \/ /\ op = "make_windows"
          /\ \E fc \in FeatureOrders, w \in WindowLens, rt \in WinRoadTypes :
                args = [feature_cols |-> fc, window_size |-> w, road_type |-> rt]
       \/ /\ op = "create_windows_inference"
          /\ \E w \in WindowLens, s \in Strides :
                /\ s \in 1..SmallStride => df.nrows <= SmallRows
                /\ args = [window_size |-> w, stride |-> s]
    /\ ret = Unused
    /\ ret2 = Unused
    /\ sensor_json = Unused
    /\ schema = Unused
    /\ probs = Unused
    /\ NoArtifactLoader
    /\ NoDatabase

\* X, idxs = make_windows(df, feature_cols, window_size, road_type)
CallMakeWindows ==
    /\ op = "make_windows"
    /\ pc \in {"ready", "called"}
    /\ LET r == make_windows(df, args.feature_cols, args.window_size, args.road_type)
       IN  /\ df' = r.df
           /\ IF pc = "ready"
              THEN ret' = [X |-> r.X, idxs |-> r.idxs] /\ UNCHANGED ret2
              ELSE ret2' = [X |-> r.X, idxs |-> r.idxs] /\ UNCHANGED ret
    /\ pc' = IF pc = "ready" THEN "called" ELSE "again"
    /\ UNCHANGED <<op, df0, args, sensor_json, schema, probs, artifact_vars, db>>

\* windows = create_windows_inference(df, window_size, stride)
CallCreateWindowsInference ==
    /\ op = "create_windows_inference"
    /\ pc \in {"ready", "called"}
    /\ LET r == create_windows_inference(df, args.window_size, args.stride)
       IN  IF pc = "ready"
           THEN ret' = [X |-> r] /\ UNCHANGED ret2
           ELSE ret2' = [X |-> r] /\ UNCHANGED ret
    /\ pc' = IF pc = "ready" THEN "called" ELSE "again"
    /\ UNCHANGED <<op, df, df0, args, sensor_json, schema, probs, artifact_vars, db>>

NextWin == CallMakeWindows \/ CallCreateWindowsInference

SpecWin == InitWin /\ [][NextWin]_vars

(***************************************************************************)
(* Windower properties                                                     *)
(***************************************************************************)

\* the stride the call under study windows with
StrideUsed ==
    IF op = "make_windows" THEN MakeWindowsStride(args.road_type) ELSE args.stride

\* the columns the windows are cut from
WindowColumns == IF op = "make_windows" THEN args.feature_cols ELSE df0.columns

\* cell (i, c) of the caller's frame; 0.0 for a feature column it lacks
InputCell(c, i) == IF c \in Range(df0.columns) THEN df0.cells[c][i] ELSE 0

\* row i of the input as the windower reads it: make_windows narrows to float32
InputRowAsRead(i) ==
    [j \in 1..Len(WindowColumns) |->
        IF op = "make_windows"
        THEN AsFloat32(InputCell(WindowColumns[j], i))
        ELSE InputCell(WindowColumns[j], i)]

\* row i of the input, value for value
InputRowExact(i) ==
    [j \in 1..Len(WindowColumns) |-> InputCell(WindowColumns[j], i)]

\* the windows are those at offsets 0, s, 2s, ... with offset + w <= n, in order,
\* each of exactly w rows, row i of the window at offset o being Row(o + i)
WindowsAre(X, Row(_), n, w, s) ==
    /\ Len(X) = IF n >= w THEN ((n - w) \div s) + 1 ELSE 0
    /\ \A o \in 0..n : (o % s = 0 /\ o + w <= n) => (o \div s) + 1 \in 1..Len(X)
    /\ \A k \in 1..Len(X) :
          /\ (k - 1) * s + w <= n
          /\ Len(X[k]) = w
          /\ \A i \in 1..w : X[k][i] = Row((k - 1) * s + i)

\* C3 (as amended): for every n, w >= 1, s >= 1 both windowers return exactly
\* the windows at offsets 0, s, 2s, ... with offset + w <= n, in that order, each
\* of exactly w rows that are input rows offset..offset+w-1 (make_windows:
\* narrowed to float32, 0.0 in a feature column the frame lacks; no padding); the
\* count is floor((n - w)/s) + 1 when n >= w, else 0; a second call on the same
\* frame returns the same windows and start indices.
C3_WindowsAtStrideOffsets ==
    pc # "ready" =>
        /\ WindowsAre(ret.X, InputRowAsRead, df0.nrows, args.window_size, StrideUsed)
        /\ op = "make_windows" =>
              ret.idxs = [k \in 1..Len(ret.X) |-> (k - 1) * StrideUsed]
        /\ pc = "again" => ret2 = ret

\* C3 as stated: the rows of every window equal the input rows themselves
C3_AsStated_RowsEqualInput ==
    pc # "ready" =>
        /\ WindowsAre(ret.X, InputRowExact, df0.nrows, args.window_size, StrideUsed)
        /\ pc = "again" => ret2 = ret

\* C3 witness: an overlapping second window was cut and the call repeated
C3_Witness ==
    /\ pc = "again"
    /\ Len(ret.X) >= 2
    /\ args.window_size > StrideUsed
    /\ df0.nrows > (Len(ret.X) - 1) * StrideUsed + args.window_size

MotorwayTags == {s_motor, s_motorway, s_highway}

SecondaryTags == {s_secondary}

\* the tag as the backend reads it
Canonical(road_type) == StrLower(StrStrip(OrEmpty(road_type)))

\* window k of a make_windows result starts at stride * (k - 1) and holds the
\* rows Row(start + 1 .. start + w)
StartsAndRows(stride, Row(_)) ==
    /\ Len(ret.idxs) = Len(ret.X)
    /\ \A k \in 1..Len(ret.X) :
          /\ ret.idxs[k] = (k - 1) * stride
          /\ \A i \in 1..args.window_size : ret.X[k][i] = Row(ret.idxs[k] + i)

\* C5 (as amended): make_windows uses stride 240 for a motorway tag and 260 for a
\* secondary tag; whichever it is, row i of every window is the float32
\* narrowing of input feature row start + i, so the road type alters the number
\* and offsets of windows and never a feature value.
C5_RoadTypeChangesStrideOnly ==
    (op = "make_windows" /\ pc # "ready") =>
        /\ Canonical(args.road_type) \in MotorwayTags => StartsAndRows(240, InputRowAsRead)
        /\ Canonical(args.road_type) \in SecondaryTags => StartsAndRows(260, InputRowAsRead)

\* C5 as stated: row i of every window equals the input feature row start + i
C5_AsStated_RowsEqualInput ==
    (op = "make_windows" /\ pc # "ready") =>
        /\ Canonical(args.road_type) \in MotorwayTags => StartsAndRows(240, InputRowExact)
        /\ Canonical(args.road_type) \in SecondaryTags => StartsAndRows(260, InputRowExact)

\* C5 witness: a secondary-road call cut a second window at row 260
C5_Witness ==
    /\ op = "make_windows"
    /\ pc = "called"
    /\ args.road_type = s_secondary
    /\ Len(ret.idxs) = 2
    /\ ret.idxs[2] = 260

(***************************************************************************)
(* Stream Aligner and Feature Completer                                    *)
(*   preprocessing_inference.preprocess_session_from_json                  *)
(*                                                                         *)
(* A reading is [timestamp, value]: each stream is modelled with its       *)
(* timestamp and one of its value columns (gps speed_kmh, accelerometer    *)
(* acc_x, lane x_lane, vehicle ttc_front, osm max_speed); the remaining    *)
(* columns of a stream go through the same merge.  Timestamps are whole    *)
(* counts of 1/(TicksPerSecond * UnitsPerTick) s and are >= 0, or NaN for  *)
(* a value pd.to_numeric(errors="coerce") could not read.                  *)
(***************************************************************************)

\* the 10 of int(max_timestamp_sec * 10) and of t_10hz / 10.0
TicksPerSecond == 10

\* timestamp resolution of the model: units per 0.1 s tick
UnitsPerTick == 2

UnitsPerSecond == TicksPerSecond * UnitsPerTick

c_x_lane == "x_lane"

c_ttc == "ttc_front"

c_max_speed == "max_speed"

c_speed_ratio == "speed_ratio"

c_t_10hz == "t_10hz"

c_timestamp == "timestamp"

\* an exception of type e leaving the call, with what its message reports
Raise(e, message) == [status |-> "raise", error |-> e, message |-> message]

\* a value returned by the call
Return(v) == [status |-> "return", value |-> v]

\* Series.max(): NaN entries are skipped; NaN when nothing is left
SeriesMax(values) ==
    LET real == {v \in Range(values) : v # NaN}
    IN  IF real = {} THEN NaN ELSE CHOOSE m \in real : \A v \in real : v <= m

Timestamps(stream) == [k \in 1..Len(stream) |-> stream[k].timestamp]

\* Body(v), with v worked out once and held, as an assignment to a local does
With(v, Body(_)) == CHOOSE r \in {Body(x) : x \in {v}} : TRUE

\* a column or frame of columns built once, as an array is
Array(f) == SubSeq(f, 1, Len(f))

\* mutant: the closing "+ 1" is dropped, range(0, int(max_timestamp_sec * 10))
build_10hz_timebase_NoLastTick(max_timestamp) ==
    Array([i \in 1..((max_timestamp * TicksPerSecond) \div UnitsPerSecond) |->
        [t_10hz |-> i - 1, timestamp |-> ((i - 1) * UnitsPerSecond) \div TicksPerSecond]])

\* build_10hz_timebase(max_timestamp_sec): rows t_10hz = 0 .. int(max * 10),
\* timestamp = t_10hz / 10.0 (here in units)
build_10hz_timebase(max_timestamp) ==
    Array([i \in 1..(((max_timestamp * TicksPerSecond) \div UnitsPerSecond) + 1) |->
        [t_10hz |-> i - 1, timestamp |-> ((i - 1) * UnitsPerSecond) \div TicksPerSecond]])

\* the orders DataFrame.sort_values("timestamp") may leave a stream in: ascending
\* timestamps, NaN last; the default quicksort promises no order among equal keys
SortValues(stream) ==
    LET n    == Len(stream)
        Key(r) == IF r.timestamp = NaN THEN 2^30 ELSE r.timestamp
        perms == {p \in [1..n -> 1..n] : \A i, j \in 1..n : i # j => p[i] # p[j]}
    IN  {[k \in 1..n |-> stream[p[k]]] : p \in
            {q \in perms : \A i \in 1..(n - 1) : Key(stream[q[i]]) <= Key(stream[q[i + 1]])}}

\* index in the sorted right frame of the row an as-of join gives tick time t,
\* 0 for no row.  backward: the last row with timestamp <= t.
AsofBackward(right, t) ==
    LET at == {k \in 1..Len(right) : right[k].timestamp <= t}
    IN  IF at = {} THEN 0 ELSE CHOOSE k \in at : \A j \in at : j <= k

\* forward: the first row with timestamp >= t
AsofForward(right, t) ==
    LET at == {k \in 1..Len(right) : right[k].timestamp >= t}
    IN  IF at = {} THEN 0 ELSE CHOOSE k \in at : \A j \in at : k <= j

\* nearest: the closer of the two, the backward one when equally close
AsofNearest(right, t) ==
    LET b == AsofBackward(right, t)
        f == AsofForward(right, t)
    IN  IF b = 0 THEN f
        ELSE IF f = 0 THEN b
        ELSE IF t - right[b].timestamp <= right[f].timestamp - t THEN b ELSE f

\* mutant: the backward join looks both ways, direction="nearest"
MergeAsofBackward_Nearest(timebase, right) ==
    Array([i \in 1..Len(timebase) |->
        LET k == AsofNearest(right, timebase[i].timestamp)
        IN  IF k = 0 THEN NaN ELSE right[k].value])

\* pd.merge_asof(timebase, right, on="timestamp", direction="backward"): the
\* value column of the result, NaN where no row matched
MergeAsofBackward(timebase, right) ==
    Array([i \in 1..Len(timebase) |->
        LET k == AsofBackward(right, timebase[i].timestamp)
        IN  IF k = 0 THEN NaN ELSE right[k].value])

\* pd.merge_asof(timebase, right, on="timestamp", direction="nearest")
MergeAsofNearest(timebase, right) ==
    Array([i \in 1..Len(timebase) |->
        LET k == AsofNearest(right, timebase[i].timestamp)
        IN  IF k = 0 THEN NaN ELSE right[k].value])

\* np.where(max_speed > 0, speed_kmh / max_speed, 0), the quotient kept in
\* hundredths; a NaN max_speed compares False, a NaN speed gives NaN
SpeedRatio(speed, max_speed) ==
    IF max_speed # NaN /\ max_speed > 0
    THEN IF speed = NaN THEN NaN ELSE (speed * 100) \div max_speed
    ELSE 0

\* KNNImputer(n_neighbors=5, weights="distance").fit_transform on one column:
\* every NaN cell receives a weighted mean of donor rows' values of that
\* column.  The model keeps that the cell is filled from the column's observed
\* values and writes the first of them; the weights are not modelled.
KnnImputeColumn(col) ==
    With(col[CHOOSE i \in 1..Len(col) :
                /\ col[i] # NaN
                /\ \A j \in 1..(i - 1) : col[j] = NaN],
         LAMBDA donor :
            Array([i \in 1..Len(col) |-> IF col[i] = NaN THEN donor ELSE col[i]]))

\* the columns of the merged frame that are imputed, in frame order
MergedFeatureColumns == <<c_speed, c_acc, c_x_lane, c_ttc, c_max_speed, c_speed_ratio>>

\* the five as-of joins onto the timebase and the speed ratio: the cells of the
\* merged frame, column by column
MergedCells(timebase, gps, acc, lane, veh, osm) ==
    With(<<MergeAsofBackward(timebase, gps), MergeAsofBackward(timebase, osm)>>,
         LAMBDA so :
            (c_speed     :> so[1])
         @@ (c_acc       :> MergeAsofNearest(timebase, acc))
         @@ (c_x_lane    :> MergeAsofNearest(timebase, lane))
         @@ (c_ttc       :> MergeAsofNearest(timebase, veh))
         @@ (c_max_speed :> so[2])
         @@ (c_speed_ratio :>
                Array([i \in 1..Len(timebase) |-> SpeedRatio(so[1][i], so[2][i])])))

\* imputer.fit_transform(X), column by column
ImputedCells(cells) ==
    [c \in Range(MergedFeatureColumns) |-> KnnImputeColumn(cells[c])] @@ <<>>

\* preprocess_session_from_json from the joins on: timebase and cells as built
PreprocessJoined(timebase, cells, sch) ==
    LET n      == Len(timebase)
        joined == [timebase |-> timebase,
                   merged   |-> DataFrame(MergedFeatureColumns, n, cells)]
    IN
    \* an all-NaN column is dropped by the imputer: pd.DataFrame(..., columns=feature_cols)
    \* then meets an array with fewer columns
    IF \E c \in Range(MergedFeatureColumns) : \A i \in 1..n : cells[c][i] = NaN
    THEN Raise("ValueError", "shape of passed values") @@ joined
    ELSE IF \E j \in 1..Len(sch.feature_order) :
               sch.feature_order[j] \notin Range(MergedFeatureColumns)
    THEN Raise("KeyError", "not in index") @@ joined           \* data_imputed[feature_order]
    ELSE With(ImputedCells(cells),
              LAMBDA imputed :
                 Return(SelectColumns(DataFrame(MergedFeatureColumns, n, imputed),
                                      sch.feature_order)) @@ joined)

\* preprocess_session_from_json from the timebase on
PreprocessTimebase(timebase, gps, acc, lane, veh, osm, sch) ==
    LET HasNaT(st) == \E k \in 1..Len(st) : st[k].timestamp = NaN
        built      == [timebase |-> timebase, merged |-> <<>>]
    IN
    IF \E st \in {gps, acc, lane, veh, osm} : st = <<>>
    THEN Raise("ValueError", "length mismatch") @@ built       \* st.columns = [...] on an empty frame
    ELSE IF \E st \in {gps, acc, lane, veh, osm} : HasNaT(st)
    THEN Raise("ValueError", "merge keys contain null values") @@ built
    ELSE With(MergedCells(timebase, gps, acc, lane, veh, osm),
              LAMBDA cells : PreprocessJoined(timebase, cells, sch))

\* preprocess_session_from_json(sensor_json) with feature_schema.json = sch and
\* the five streams as sort_values left them.  Returns the frame or the
\* exception, and (history) the timebase and the merged frame before imputation.
preprocess_session_from_json(gps, acc, lane, veh, osm, sch) ==
    LET nothing == [timebase |-> <<>>, merged |-> <<>>]
    IN
    IF gps = <<>> THEN Raise("ValueError", "length mismatch") @@ nothing   \* gps.columns = [...]
    ELSE IF SeriesMax(Timestamps(gps)) = NaN
    THEN Raise("ValueError", "cannot convert float NaN to integer") @@ nothing
    ELSE With(build_10hz_timebase(SeriesMax(Timestamps(gps))),
              LAMBDA timebase : PreprocessTimebase(timebase, gps, acc, lane, veh, osm, sch))

(***************************************************************************)
(* Stream Aligner in isolation: one session bundle, preprocessed once       *)
(***************************************************************************)

\* latest reading of a freely chosen stream, in units
MaxTs == 5

\* most readings of a freely chosen stream
MaxReadings == 2

\* the stream whose readings carry the timestamps tss, in input order; reading
\* k holds value first + step * (k - 1), so a value names its reading
MkStream(tss, first, step) ==
    [k \in 1..Len(tss) |-> [timestamp |-> tss[k], value |-> first + step * (k - 1)]]

\* every timestamp list of 1..MaxReadings entries from 0..MaxTs or NaN
FreeTimestamps == UNION {[1..n -> (0..MaxTs) \cup {NaN}] : n \in 1..MaxReadings}

GpsStream(tss) == MkStream(tss, 51, 1)

\* the first map-context reading posts no limit (max_speed 0)
OsmStream(tss) == MkStream(tss, 0, 60)

AccStream(tss) == MkStream(tss, 11, 1)

LaneStream(tss) == MkStream(tss, 21, 1)

VehStream(tss) == MkStream(tss, 31, 1)

GpsFew == {GpsStream(<<0>>), GpsStream(<<1, MaxTs>>)}

OsmFew == {OsmStream(<<0>>), OsmStream(<<MaxTs, 1>>)}

\* none, one at the start, one later than every gps reading, two out of order
AccChoices ==
    {<<>>, AccStream(<<0>>), AccStream(<<MaxTs + UnitsPerTick>>), AccStream(<<MaxTs, 0>>)}

LaneChoices == {LaneStream(<<0>>), LaneStream(<<1, 3>>)}

c_heading_rate == "heading_rate"

\* feature_schema.json: the merged order, a reordered part of it, and a schema
\* naming a feature no stream provides
AlignSchemas ==
    {[feature_order |-> MergedFeatureColumns],
     [feature_order |-> <<c_speed_ratio, c_speed, c_acc>>],
     [feature_order |-> <<c_speed, c_heading_rate>>]}

InitAlign ==
    /\ pc = "ready"
    /\ op = "preprocess_session_from_json"
    /\ \E g \in {GpsStream(t) : t \in FreeTimestamps} \cup GpsFew,
          o \in {OsmStream(t) : t \in FreeTimestamps} \cup OsmFew,
          a \in AccChoices, l \in LaneChoices :
          /\ g \in GpsFew \/ o \in OsmFew
          /\ sensor_json = [gps |-> g, accelerometer |-> a, lane |-> l,
                            vehicle |-> VehStream(<<0>>), osm |-> o,
                            road_type |-> s_Motorway, session_id |-> 5]
    /\ schema \in AlignSchemas
    /\ df = Unused
    /\ df0 = Unused
    /\ args = Unused
    /\ ret = Unused
    /\ ret2 = Unused
    /\ probs = Unused
    /\ NoArtifactLoader
    /\ NoDatabase

\* df = preprocess_session_from_json(sensor_json)
CallPreprocess ==
    /\ op = "preprocess_session_from_json"
    /\ pc = "ready"
    /\ \E g \in SortValues(sensor_json.gps), a \in SortValues(sensor_json.accelerometer),
          l \in SortValues(sensor_json.lane), v \in SortValues(sensor_json.vehicle),
          o \in SortValues(sensor_json.osm) :
          ret' = preprocess_session_from_json(g, a, l, v, o, schema)
    /\ pc' = "called"
    /\ UNCHANGED <<op, df, df0, args, ret2, sensor_json, schema, probs, artifact_vars, db>>

NextAlign == CallPreprocess

SpecAlign == InitAlign /\ [][NextAlign]_vars

(***************************************************************************)
(* Stream Aligner properties                                               *)
(***************************************************************************)

\* the call built its timebase
TimebaseBuilt == op = "preprocess_session_from_json" /\ pc = "called" /\ ret.timebase # <<>>

\* the call joined all five streams onto the timebase
StreamsJoined == TimebaseBuilt /\ ret.merged # <<>>

\* C6: for max_ts >= 0 the timeline build_10hz_timebase(max_ts) returns has
\* exactly floor(max_ts * 10) + 1 ticks, starts at time 0, has tick i at time
\* i/10, and consecutive ticks 0.1 s (UnitsPerTick units) apart: no gap, no repeat.
C6_TimelineTicks ==
    TimebaseBuilt =>
        LET max_ts == SeriesMax(Timestamps(sensor_json.gps))
            tb     == ret.timebase
        IN  /\ max_ts >= 0
            /\ Len(tb) = (max_ts \div UnitsPerTick) + 1
            /\ tb[1].timestamp = 0
            /\ \A i \in 1..Len(tb) :
                  /\ tb[i].t_10hz = i - 1
                  /\ tb[i].timestamp * TicksPerSecond = (i - 1) * UnitsPerSecond
            /\ \A i \in 1..(Len(tb) - 1) :
                  tb[i + 1].timestamp - tb[i].timestamp = UnitsPerTick

\* C6 witness: a session ending between two ticks got a timeline of three ticks
C6_Witness ==
    /\ TimebaseBuilt
    /\ SeriesMax(Timestamps(sensor_json.gps)) = 2 * UnitsPerTick + 1
    /\ Len(ret.timebase) = 3

\* the latest readable timestamp of any of the five streams
MaxOverStreams ==
    SeriesMax(Timestamps(sensor_json.gps) \o Timestamps(sensor_json.accelerometer)
              \o Timestamps(sensor_json.lane) \o Timestamps(sensor_json.vehicle)
              \o Timestamps(sensor_json.osm))

\* C7 as stated: the timeline covers [0, max over the timestamps of all five
\* streams]: it reaches the last tick at or before the latest reading of any stream.
C7_AsStated_CoversAllStreams ==
    (StreamsJoined /\ ret.status = "return") => Len(ret.timebase) = (MaxOverStreams \div UnitsPerTick) + 1

\* the joined cell of tick i is what a backward as-of join of the stream gives:
\* the value of a reading with the greatest timestamp <= t, NaN when there is
\* no reading at or before t, never the value of a reading later than t
BackwardJoined(stream, column, i) ==
    LET t    == ret.timebase[i].timestamp
        cell == ret.merged.cells[column][i]
        past == {k \in 1..Len(stream) : stream[k].timestamp <= t}
    IN  /\ past = {} => cell = NaN
        /\ past # {} =>
              \E k \in past : /\ \A j \in past : stream[j].timestamp <= stream[k].timestamp
                              /\ cell = stream[k].value
        /\ \A k \in 1..Len(stream) : stream[k].timestamp > t => cell # stream[k].value

\* C8: at every tick t the gps and map-context (osm) fields of the merged row
\* come from that stream's reading with the greatest timestamp <= t, are missing
\* when the stream has no reading at or before t, and never come from a reading
\* with timestamp > t.
C8_BackwardJoinNeverLooksAhead ==
    StreamsJoined =>
        \A i \in 1..Len(ret.timebase) :
            /\ BackwardJoined(sensor_json.gps, c_speed, i)
            /\ BackwardJoined(sensor_json.osm, c_max_speed, i)

\* C8 witness: the first tick precedes every gps reading and stays missing, and
\* a later tick holds the earlier reading while a later reading is yet to come
C8_Witness ==
    /\ StreamsJoined
    /\ Len(ret.timebase) = 3
    /\ sensor_json.gps = GpsStream(<<1, MaxTs>>)
    /\ ret.merged.cells[c_speed] = <<NaN, 51, 51>>

(***************************************************************************)
(* Classifier, backend path: predictor.predict_from_dataframe              *)
(*                                                                         *)
(* A probability is a whole number of 1/ProbUnits; a mean over n windows   *)
(* is kept exact as numerators over the denominator n * ProbUnits.  The    *)
(* fitted scaler and the Keras model are opaque: model.predict may return  *)
(* any probability vector per window.                                      *)
(***************************************************************************)

\* predictor.LABELS
LABELS == <<"Aggressive", "Drowsy", "Normal">>

\* the label columns predict_from_dataframe drops
DropColumns == <<"behavior_label", "label", "target", "class">>

\* predictor.py: use_motor
UseMotor(road_type) ==
    StrLower(StrStrip(OrEmpty(road_type))) \in {s_motor, s_motorway, s_highway}

\* for drop_col in [...]: if drop_col in df.columns: df = df.drop(columns=[drop_col])
RECURSIVE DropLabelColumns(_, _)
DropLabelColumns(d, cols) ==
    IF cols = <<>> THEN d
    ELSE DropLabelColumns(
            IF Head(cols) \in Range(d.columns) THEN DropColumn(d, Head(cols)) ELSE d,
            Tail(cols))

\* np.argmax(v): the first index (from 1 here) of the largest entry
ArgMax(v) ==
    CHOOSE i \in 1..Len(v) :
        /\ \A j \in 1..Len(v) : v[j] <= v[i]
        /\ \A j \in 1..(i - 1) : v[j] < v[i]

RECURSIVE SumOver(_, _, _)
\* sum of p[k][c] over windows k = 1..n
SumOver(p, c, n) == IF n = 0 THEN 0 ELSE p[n][c] + SumOver(p, c, n - 1)

\* probabilities are whole numbers of 1/ProbUnits
ProbUnits == 2

\* what model.predict may return for one window: three classes summing to 1
ProbVectors ==
    {v \in [1..3 -> 0..ProbUnits] : v[1] + v[2] + v[3] = ProbUnits}

\* mutant: the session vector is the first window's, probs[0]
MeanProbs_FirstWindow(p) ==
    [num |-> [c \in 1..3 |-> p[1][c] * Len(p)], den |-> Len(p) * ProbUnits]

\* probs.mean(axis=0): the component-wise mean over the Len(p) windows, as
\* numerators over the common denominator Len(p) * ProbUnits
MeanProbs(p) ==
    [num |-> [c \in 1..3 |-> SumOver(p, c, Len(p))], den |-> Len(p) * ProbUnits]

\* the score with the Aggressive band rising with confidence
OverallScore_AggressiveRises(label, num, den) ==
    LET raw == IF label = "Normal" THEN 80 + ((num * 20) \div den)
               ELSE IF label = "Aggressive" THEN 35 + ((num * 15) \div den)
               ELSE 20 + (((den - num) * 20) \div den)
    IN  Max(0, Min(100, raw))

\* the score with the Normal band starting at 60
OverallScore_NormalBase60(label, num, den) ==
    LET raw == IF label = "Normal" THEN 60 + ((num * 20) \div den)
               ELSE IF label = "Aggressive" THEN 35 + (((den - num) * 15) \div den)
               ELSE 20 + (((den - num) * 20) \div den)
    IN  Max(0, Min(100, raw))

\* int(80 + confidence * 20) and its siblings, then max(0, min(100, overall));
\* confidence = num / den, int() truncates
OverallScore(label, num, den) ==
    LET raw == IF label = "Normal" THEN 80 + ((num * 20) \div den)
               ELSE IF label = "Aggressive" THEN 35 + (((den - num) * 15) \div den)
               ELSE 20 + (((den - num) * 20) \div den)
    IN  Max(0, Min(100, raw))

\* the badge with the Excellent band starting one point late
Badge_ExcellentAbove85(overall) ==
    IF overall > 85 THEN "Excellent"
    ELSE IF overall >= 70 THEN "Improving"
    ELSE "Needs Focus"

Badge(overall) ==
    IF overall >= 85 THEN "Excellent"
    ELSE IF overall >= 70 THEN "Improving"
    ELSE "Needs Focus"

\* the first feedback entry: priority and title
AiFeedback(label) ==
    IF label = "Aggressive" THEN [priority |-> "high", title |-> "Harsh driving detected"]
    ELSE IF label = "Drowsy" THEN [priority |-> "high", title |-> "Possible fatigue risk"]
    ELSE [priority |-> "medium", title |-> "Good control"]

\* predict_from_dataframe up to the window check: the branch taken, the frame
\* handed to make_windows, the windows, and the caller's frame as it is left.
\* art is what load_artifacts() returned.
PredictWindows(d, road_type, art) ==
    LET feature_cols == art.feature_order
        window_size  == art.window_length
        use_motor    == UseMotor(road_type)
        dropped      == DropLabelColumns(d, DropColumns)
        filled       == FillMissingColumns(dropped, feature_cols)
        ordered      == SelectColumns(filled, feature_cols)
        w            == make_windows(ordered, feature_cols, window_size, road_type)
    IN  [use_motor |-> use_motor,
         model     |-> IF use_motor THEN "motor_model" ELSE "secondary_model",
         scaler    |-> IF use_motor THEN "motor_scaler" ELSE "secondary_scaler",
         features  |-> ordered,
         X         |-> w.X,
         stride    |-> MakeWindowsStride(road_type),
         \* drop() returns a new frame; without a drop the zero columns are written
         \* into the caller's own frame
         caller_df |-> IF dropped = d THEN filled ELSE d]

\* the rest of predict_from_dataframe, p being what model.predict returned
PredictResult(pw, p) ==
    LET mean_probs == MeanProbs(p)
        pred_idx   == ArgMax(mean_probs.num)
        label      == LABELS[pred_idx]
        overall    == OverallScore(label, mean_probs.num[pred_idx], mean_probs.den)
    IN  Return([method       |-> "ml_v1",
                road_type    |-> IF pw.use_motor THEN "motor" ELSE "secondary",
                windows_used |-> Len(pw.X),
                label        |-> label,
                confidence   |-> [num |-> mean_probs.num[pred_idx], den |-> mean_probs.den],
                overall      |-> overall,
                badge        |-> Badge(overall),
                probs        |-> [i \in 1..3 |->
                                    [label |-> LABELS[i], num |-> mean_probs.num[i],
                                     den |-> mean_probs.den]],
                ai_feedback  |-> AiFeedback(label)])

(***************************************************************************)
(* Classifier and anomaly pipeline, ml-model path                          *)
(*   preprocessing_inference.run_classification                            *)
(*   knn_alerts_inference.load_knn_components, run_full_knn_pipeline       *)
(*                                                                         *)
(* The scalers, the Keras models and the k-NN models are opaque: a model   *)
(* may return any class per window, the k-NN model any mean distance.      *)
(***************************************************************************)

\* the window length run_classification and run_full_knn_pipeline pass
WINDOW_SIZE == 2400

\* label_map of map_classes_to_labels, class indices 0..2
label_map == <<"Aggressive", "Normal", "Drowsy">>

\* map_classes_to_labels(class_indices)
map_classes_to_labels(class_indices) ==
    [k \in 1..Len(class_indices) |-> label_map[class_indices[k] + 1]]

\* run_classification, step 2: the stride / model / scaler of a road-type tag,
\* or no branch at all
ClassificationBranch(road_type) ==
    IF road_type = s_Motorway
    THEN [known |-> TRUE, stride |-> 240, model |-> "motor_model", scaler |-> "motor_scaler"]
    ELSE IF road_type = s_Secondary
    THEN [known |-> TRUE, stride |-> 260, model |-> "secondary_model",
          scaler |-> "secondary_scaler"]
    ELSE [known |-> FALSE]

\* run_classification up to the window check; pre is what
\* preprocess_session_from_json returned or raised
ClassificationWindows(pre, road_type) ==
    IF pre.status = "raise" THEN [raised |-> TRUE, outcome |-> Raise(pre.error, pre.message)]
    ELSE IF ~ClassificationBranch(road_type).known
    THEN [raised |-> TRUE, outcome |-> Raise("ValueError", "Unknown road type")]
    ELSE [raised  |-> FALSE,
          branch  |-> ClassificationBranch(road_type),
          windows |-> create_windows_inference(pre.value, WINDOW_SIZE,
                                               ClassificationBranch(road_type).stride)]

\* run_classification(sensor_json): cw as above, classes what
\* get_predicted_classes made of model.predict's answer, one class per window
run_classification(sj, cw, classes) ==
    IF cw.raised THEN cw.outcome
    ELSE IF Len(cw.windows) = 0
    THEN Return([session_id |-> sj.session_id, error |-> "Not enough data for windowing"])
    ELSE Return([session_id       |-> sj.session_id,
                 road_type        |-> sj.road_type,
                 scaled_windows   |-> [n |-> Len(cw.windows), scaler |-> cw.branch.scaler,
                                       stride |-> cw.branch.stride],
                 predicted_labels |-> map_classes_to_labels(classes)])

\* the anomaly thresholds of knn_thresholds.json, in distance units
KnnThresholds == [motor |-> 1, secondary |-> 2]

\* load_knn_components(road_type): the branch whose k-NN model, scaler and
\* threshold are loaded, or the exception
load_knn_components(road_type) ==
    IF road_type = None THEN Raise("AttributeError", "'NoneType' object has no attribute 'strip'")
    ELSE IF StrLower(StrStrip(road_type)) \in {s_motorway, s_motor}
    THEN Return([knn_model |-> "motor_knn_model", scaler |-> "motor_knn_scaler",
                 threshold_key |-> "motor", threshold |-> KnnThresholds.motor])
    ELSE IF StrLower(StrStrip(road_type)) \in {s_secondary}
    THEN Return([knn_model |-> "secondary_knn_model", scaler |-> "secondary_knn_scaler",
                 threshold_key |-> "secondary", threshold |-> KnnThresholds.secondary])
    ELSE Raise("ValueError", "Unknown road type")

\* run_full_knn_pipeline: stride = 240 if road_type.lower() == "motorway" else 260
KnnPipelineStride(road_type) ==
    IF StrLower(road_type) = s_motorway THEN 240 ELSE 260

\* run_full_knn_pipeline(sensor_json): cr is what run_classification returned
\* or raised, pre the second preprocess_session_from_json, dist the mean k-NN
\* distance per window.  Of run_knn_alerts and build_session_summary the
\* alert flag and the counts are kept.
run_full_knn_pipeline(sj, cr, pre, dist) ==
    IF cr.status = "raise" THEN cr
    ELSE IF "road_type" \notin DOMAIN cr.value
    THEN Raise("KeyError", "road_type")           \* classification_result["road_type"]
    ELSE IF pre.status = "raise" THEN Raise(pre.error, pre.message)
    ELSE
    LET road_type == cr.value.road_type
        stride    == KnnPipelineStride(road_type)
        windows   == create_windows_inference(pre.value, WINDOW_SIZE, stride)
        knn       == load_knn_components(road_type)
    IN
    IF Len(windows) = 0 THEN Raise("ValueError", "Not enough data for windowing")
    ELSE IF knn.status = "raise" THEN knn
    ELSE
    LET results == [k \in 1..Len(windows) |->
                      [window_id       |-> k - 1,
                       predicted_label |-> cr.value.predicted_labels[k],
                       alert           |-> IF dist[k] > knn.value.threshold
                                           THEN "Abnormal" ELSE "No alert",
                       knn_distance    |-> dist[k]]]
    IN  Return([session_summary |->
                    [session_id    |-> cr.value.session_id,
                     road_type     |-> road_type,
                     total_windows |-> Len(results),
                     total_alerts  |-> Cardinality({k \in 1..Len(results) :
                                                      results[k].alert = "Abnormal"})],
                windows   |-> results,
                stride    |-> stride,
                knn_model |-> knn.value.knn_model])

(***************************************************************************)
(* The entry points, each called once on one input                         *)
(***************************************************************************)

\* the road-type tags a caller may pass
RoadTypes ==
    {s_motor, s_motorway, s_highway, s_secondary, s_Motorway, s_Secondary,
     s_gravel, s_MOTOR_padded, <<>>, None}

\* a generated frame whose first column has lost its first cell (an empty CSV field)
GenFrameWithNaN(columns, nrows) ==
    LET g == GenFrame(columns, nrows)
    IN  IF nrows = 0 \/ columns = <<>> THEN g
        ELSE [g EXCEPT !.cells[columns[1]][1] = NaN]

\* what load_artifacts() returns of feature_schema.json
Artifacts(feature_order, window_length) ==
    [feature_order |-> feature_order, window_length |-> window_length]

\* frames of a backend session: one row short of a window, exactly one window,
\* and a second window under either stride
SessionRows(w) == {w - 1, w, w + MOTOR_STRIDE, w + SECONDARY_STRIDE}

\* ticks of an ml-model session: a single tick, one short of a window, exactly
\* one window, and a second window under either stride
SessionTicks ==
    {1, WINDOW_SIZE - 1, WINDOW_SIZE, WINDOW_SIZE + 240, WINDOW_SIZE + 260}

\* the bundle of a session of n ticks
SessionBundle(n, road_type) ==
    [gps           |-> GpsStream(<<(n - 1) * UnitsPerTick, 0>>),
     accelerometer |-> AccStream(<<0>>),
     lane          |-> LaneStream(<<0>>),
     vehicle       |-> VehStream(<<0>>),
     osm           |-> OsmStream(<<0, 1>>),
     road_type     |-> road_type,
     session_id    |-> 5]

\* sessions of every road-type tag, short and long
InitPredictTags ==
    /\ op = "predict_from_dataframe"
    /\ \E rt \in RoadTypes :
          args = [road_type |-> rt, art |-> Artifacts(<<c_speed, c_acc>>, 1)]
    /\ \E n \in SessionRows(1) : df = GenFrame(<<c_speed, c_acc, c_label>>, n)
    /\ sensor_json = Unused
    /\ schema = Unused

\* sessions of every column set under every schema, of at most one window
InitPredictColumns ==
    /\ op = "predict_from_dataframe"
    /\ \E w \in 1..SmallWindow, rt \in {s_motorway, s_secondary}, fo \in FeatureOrders :
          /\ args = [road_type |-> rt, art |-> Artifacts(fo, w)]
          /\ \E n \in {w - 1, w}, cols \in DfColumnChoices :
                df \in {GenFrame(cols, n), GenFrameWithNaN(cols, n)}
    /\ sensor_json = Unused
    /\ schema = Unused

\* one long motorway session, of three windows
InitPredictLong ==
    /\ op = "predict_from_dataframe"
    /\ args = [road_type |-> s_motor, art |-> Artifacts(<<c_speed, c_acc>>, 1)]
    /\ df = GenFrame(<<c_speed, c_acc>>, 1 + 2 * MOTOR_STRIDE)
    /\ sensor_json = Unused
    /\ schema = Unused

\* one-tick sessions of every road-type tag under every schema; longer
\* sessions of the two tags the bundles are written with
InitMlModel ==
    /\ op \in {"run_classification", "run_full_knn_pipeline"}
    /\ \/ /\ \E rt \in RoadTypes : sensor_json = SessionBundle(1, rt)
          /\ schema \in AlignSchemas
       \/ /\ \E n \in SessionTicks, rt \in {s_Motorway, s_Secondary} :
                sensor_json = SessionBundle(n, rt)
          /\ schema = [feature_order |-> MergedFeatureColumns]
    /\ df = Unused
    /\ args = Unused

InitLoadKnn ==
    /\ op = "load_knn_components"
    /\ \E rt \in RoadTypes : args = [road_type |-> rt]
    /\ sensor_json = Unused
    /\ schema = Unused
    /\ df = Unused

Init ==
    /\ pc = "ready"
    /\ InitPredictTags \/ InitPredictColumns \/ InitPredictLong \/ InitMlModel \/ InitLoadKnn
    /\ df0 = df
    /\ ret = Unused
    /\ ret2 = Unused
    /\ probs = Unused
    /\ NoArtifactLoader
    /\ NoDatabase

\* every way predict_from_dataframe(df, road_type) may end, over what
\* model.predict may return: the outcome, the window probabilities, and the
\* caller's frame afterwards.  The outcome also records (picked) the model,
\* scaler and stride selected and (features) the frame handed to make_windows.
PredictOutcomes(d, a) ==
    UNION {
        LET picked == [picked   |-> [model |-> pw.model, scaler |-> pw.scaler,
                                     stride |-> pw.stride],
                       features |-> pw.features]
        IN  IF Len(pw.X) = 0
            THEN {[ret   |-> Raise("ValueError", "Not enough rows for ML window") @@ picked,
                   probs |-> <<>>,
                   df    |-> pw.caller_df]}
            ELSE {[ret   |-> PredictResult(pw, p) @@ picked,
                   probs |-> p,
                   df    |-> pw.caller_df] : p \in [1..Len(pw.X) -> ProbVectors]}
        : pw \in {PredictWindows(d, a.road_type, a.art)}}

\* result = predict_from_dataframe(df, road_type)
CallPredictFromDataframe ==
    /\ op = "predict_from_dataframe"
    /\ pc = "ready"
    /\ \E o \in PredictOutcomes(df, args) :
          /\ ret' = o.ret
          /\ probs' = o.probs
          /\ df' = o.df
    /\ pc' = "called"
    /\ UNCHANGED <<op, df0, args, ret2, sensor_json, schema, artifact_vars, db>>

\* the ways the five streams of a bundle may come out of sort_values
SortedBundles(sj) ==
    {[gps |-> g, accelerometer |-> a, lane |-> l, vehicle |-> v, osm |-> o] :
        g \in SortValues(sj.gps), a \in SortValues(sj.accelerometer),
        l \in SortValues(sj.lane), v \in SortValues(sj.vehicle),
        o \in SortValues(sj.osm)}

\* data_final = preprocess_session_from_json(sensor_json): every way it may
\* return or raise, over the sort orders
Preprocessed(sj, sch) ==
    {With(preprocess_session_from_json(b.gps, b.accelerometer, b.lane, b.vehicle,
                                       b.osm, sch),
          LAMBDA r : IF r.status = "raise" THEN Raise(r.error, r.message)
                     ELSE Return(r.value))
        : b \in SortedBundles(sj)}

\* what an ml-model entry point selected, for the record
PickedOf(cw) ==
    IF cw.raised
    THEN [model |-> "none", scaler |-> "none", stride |-> 0]
    ELSE [model |-> cw.branch.model, scaler |-> cw.branch.scaler, stride |-> cw.branch.stride]

\* the windows run_classification cut, none when it raised first
WindowCount(cw) == IF cw.raised THEN 0 ELSE Len(cw.windows)

\* every way run_classification(sensor_json) may end, over the sort orders and
\* the classes the model may predict.  The outcome also records (picked) the
\* model, scaler and stride selected and (pre) what preprocessing gave.
ClassificationOutcomes(sj, sch) ==
    UNION {UNION {
        {run_classification(sj, cw, classes) @@ [picked |-> PickedOf(cw), pre |-> pre]
            : classes \in [1..WindowCount(cw) -> 0..2]}
        : cw \in {ClassificationWindows(pre, sj.road_type)}}
        : pre \in Preprocessed(sj, sch)}

\* result = run_classification(sensor_json)
CallRunClassification ==
    /\ op = "run_classification"
    /\ pc = "ready"
    /\ ret' \in ClassificationOutcomes(sensor_json, schema)
    /\ pc' = "called"
    /\ UNCHANGED <<op, df, df0, args, ret2, sensor_json, schema, probs, artifact_vars, db>>

\* distances the k-NN model may report, in distance units
MaxDistance == 2

\* every way run_full_knn_pipeline(sensor_json) may end, over the sort orders
\* of its two preprocessing passes, the predicted classes and the distances
KnnPipelineOutcomes(sj, sch) ==
    UNION {UNION {
        {run_full_knn_pipeline(sj, cr, pp[2], dist)
                @@ [picked |-> PickedOf(cw), pre |-> pp[1]]
            : cr   \in {run_classification(sj, cw, classes)
                           : classes \in [1..WindowCount(cw) -> 0..2]},
              dist \in [1..WindowCount(cw) -> 0..MaxDistance]}
        : cw \in {ClassificationWindows(pp[1], sj.road_type)}}
        : pp \in Preprocessed(sj, sch) \X Preprocessed(sj, sch)}

\* result = run_full_knn_pipeline(sensor_json)
CallRunFullKnnPipeline ==
    /\ op = "run_full_knn_pipeline"
    /\ pc = "ready"
    /\ ret' \in KnnPipelineOutcomes(sensor_json, schema)
    /\ pc' = "called"
    /\ UNCHANGED <<op, df, df0, args, ret2, sensor_json, schema, probs, artifact_vars, db>>

\* knn_model, scaler, knn_feature_cols, threshold = load_knn_components(road_type)
CallLoadKnnComponents ==
    /\ op = "load_knn_components"
    /\ pc = "ready"
    /\ ret' = load_knn_components(args.road_type)
    /\ pc' = "called"
    /\ UNCHANGED <<op, df, df0, args, ret2, sensor_json, schema, probs, artifact_vars, db>>

Next ==
    \/ CallPredictFromDataframe
    \/ CallRunClassification
    \/ CallRunFullKnnPipeline
    \/ CallLoadKnnComponents

Spec == Init /\ [][Next]_vars

(***************************************************************************)
(* Properties of the entry points                                          *)
(***************************************************************************)

\* an entry point has been called and has ended
Ended == pc = "called"

MlModelOps == {"run_classification", "run_full_knn_pipeline"}

\* the road-type tag of the session in hand
Tag == IF op \in MlModelOps THEN sensor_json.road_type ELSE args.road_type

\* the tags the spec's glossary knows: a motorway tag or a secondary tag, in any
\* letter case and padding
Recognised(tag) ==
    /\ tag # None
    /\ StrLower(StrStrip(tag)) \in {s_motor, s_motorway, s_highway, s_secondary}

\* the completed feature matrix has fewer rows than a window, and nothing else
\* is wrong with the session
ShortSession ==
    \/ /\ op = "predict_from_dataframe"
       /\ ret.features.nrows < args.art.window_length
    \/ /\ op \in MlModelOps
       /\ ClassificationBranch(Tag).known
       /\ ret.pre.status = "return"
       /\ ret.pre.value.nrows < WINDOW_SIZE

\* the explicit insufficient-data outcomes: the ValueError of either path, or
\* run_classification's record with the error field
InsufficientData(r) ==
    \/ /\ r.status = "raise"
       /\ r.error = "ValueError"
       /\ r.message \in {"Not enough rows for ML window", "Not enough data for windowing"}
    \/ /\ r.status = "return"
       /\ "error" \in DOMAIN r.value
       /\ r.value.error = "Not enough data for windowing"

\* C1 (as the spec states it): for every session whose completed feature
\* matrix has fewer rows than window_length, each entry point
\* (predict_from_dataframe, run_classification, run_full_knn_pipeline) ends
\* with the explicit insufficient-data outcome, never with another failure and
\* never with a label or score.
C1_AsStated_ShortSessionEndsInsufficientData ==
    (Ended /\ op \in MlModelOps \cup {"predict_from_dataframe"} /\ ShortSession)
        => InsufficientData(ret)

\* C2 (as the spec states it): an entry point (predict_from_dataframe,
\* run_classification, load_knn_components) given a tag that is neither a
\* motorway tag nor a secondary tag ends with the input-validation error,
\* having selected no model or scaler and returning no result.
C2_AsStated_UnknownTagRejected ==
    ( /\ Ended
      /\ op \in {"predict_from_dataframe", "run_classification", "load_knn_components"}
      /\ Tag # None
      /\ ~Recognised(Tag)
      /\ op = "run_classification" => ret.pre.status = "return" )
        => /\ ret.status = "raise"
           /\ ret.error = "ValueError"
           /\ ret.message = "Unknown road type"
           /\ op # "load_knn_components" => ret.picked.model = "none"

\* the strides the program's three lookups give one tag: make_windows',
\* run_classification's (where it has a branch for the tag) and
\* run_full_knn_pipeline's
StridesPicked(tag) ==
    {MakeWindowsStride(tag), KnnPipelineStride(tag)}
        \cup (IF ClassificationBranch(tag).known
              THEN {ClassificationBranch(tag).stride} ELSE {})

\* C4 (as the spec states it): for the tag of any session, every place that
\* picks a stride picks the same one, and the branch that picks the model,
\* scaler and k-NN components is the branch that picks the stride.
C4_AsStated_OneSharedLookup ==
    (Ended /\ Recognised(Tag))
        => /\ Cardinality(StridesPicked(Tag)) = 1
           /\ UseMotor(Tag) <=> (MakeWindowsStride(Tag) = MOTOR_STRIDE)
           /\ ClassificationBranch(Tag).known
                 => ((ClassificationBranch(Tag).model = "motor_model")
                        <=> (ClassificationBranch(Tag).stride = MOTOR_STRIDE))
           /\ load_knn_components(Tag).status = "return"
                 => ((load_knn_components(Tag).value.threshold_key = "motor")
                        <=> (KnnPipelineStride(Tag) = MOTOR_STRIDE))

\* matrix m holds exactly the schema's columns in the schema's order, zeros in
\* the columns the input lacked, and no missing cell
MatrixComplete(m, feature_order, input_columns) ==
    /\ m.columns = feature_order
    /\ \A j \in 1..Len(feature_order) :
          LET c == feature_order[j]
          IN  /\ c \notin Range(input_columns) => \A i \in 1..m.nrows : m.cells[c][i] = 0
              /\ \A i \in 1..m.nrows : m.cells[c][i] # NaN

\* C9 (as the spec states it): on both paths the matrix handed to windowing
\* has the schema's columns in the schema's order, a schema column the input
\* lacks is filled with zeros rather than failing the call, and no cell is
\* missing.
C9_AsStated_FeatureMatrixComplete ==
    Ended =>
        /\ op = "predict_from_dataframe"
              => MatrixComplete(ret.features, args.art.feature_order, df0.columns)
        /\ op \in MlModelOps
              => /\ ret.pre.status = "raise" => ret.pre.error # "KeyError"
                 /\ ret.pre.status = "return"
                       => MatrixComplete(ret.pre.value, schema.feature_order,
                                         MergedFeatureColumns)

\* predict_from_dataframe has returned a result
PredictReturned ==
    /\ Ended
    /\ op = "predict_from_dataframe"
    /\ ret.status = "return"

\* C10: the session probability vector of predict_from_dataframe is the
\* component-wise mean of the window vectors model.predict returned, it sums to
\* 1, the label is the class of a largest component and the confidence is
\* that component.
C10_SessionVectorIsWindowMean ==
    PredictReturned =>
        LET r == ret.value
            n == Len(probs)
        IN  /\ r.windows_used = n
            /\ \A i \in 1..3 :
                  /\ r.probs[i].label = LABELS[i]
                  /\ r.probs[i].den > 0
                  /\ r.probs[i].num * n * ProbUnits = SumOver(probs, i, n) * r.probs[i].den
            /\ r.probs[1].num * r.probs[2].den * r.probs[3].den
                 + r.probs[2].num * r.probs[1].den * r.probs[3].den
                 + r.probs[3].num * r.probs[1].den * r.probs[2].den
                 = r.probs[1].den * r.probs[2].den * r.probs[3].den
            /\ \E i \in 1..3 :
                  /\ r.label = LABELS[i]
                  /\ \A j \in 1..3 :
                        r.probs[j].num * r.probs[i].den <= r.probs[i].num * r.probs[j].den
                  /\ r.confidence.num * r.probs[i].den = r.probs[i].num * r.confidence.den

\* three windows whose vectors differ, the session's class not the first window's
C10_Witness ==
    /\ PredictReturned
    /\ Len(probs) = 3
    /\ probs[1] = <<ProbUnits, 0, 0>>
    /\ probs[2] = <<0, 0, ProbUnits>>
    /\ probs[3] = <<0, 0, ProbUnits>>
    /\ ret.value.label = "Normal"

\* C29: after predict_from_dataframe or make_windows has returned or raised,
\* the caller's DataFrame has the columns and values it had before the call.
\* Fails: df[col] = 0.0 adds each absent schema column to the caller's frame.
C29_AsStated_CallerFrameUnchanged ==
    (op \in {"predict_from_dataframe", "make_windows"} /\ pc # "ready") => df = df0

\* C30: the session vector summing to 1, so that the confidence of the chosen
\* label is at least 1/3, predict_from_dataframe returns badge "Excellent" for
\* label Normal and "Needs Focus" for Aggressive and Drowsy, never "Improving".
C30_BadgeFollowsLabel ==
    PredictReturned =>
        LET r == ret.value
        IN  /\ 3 * r.confidence.num >= r.confidence.den
            /\ r.badge = (IF r.label = "Normal" THEN "Excellent" ELSE "Needs Focus")
            /\ r.badge # "Improving"

\* a Normal session decided by no more than half of the probability mass
C30_Witness ==
    /\ PredictReturned
    /\ ret.value.label = "Normal"
    /\ 2 * ret.value.confidence.num <= ret.value.confidence.den
    /\ ret.value.badge = "Excellent"

(***************************************************************************)
(* The score and the badge of predict_from_dataframe, as functions         *)
(***************************************************************************)

\* confidences tried: k / ConfidenceUnits for k in 0..ConfidenceUnits
ConfidenceUnits == 24

\* the clamp of line 94 bounds the score from above
MaxScore == 100

\* the caller evaluates the score lines for one label at two confidences, or
\* the badge lines at two scores
InitScore ==
    /\ pc = "ready"
    /\ \/ /\ op = "overall_score"
          /\ \E l \in Range(LABELS), c1 \in 0..ConfidenceUnits, c2 \in 0..ConfidenceUnits :
                args = [label |-> l,
                        confidence  |-> [num |-> c1, den |-> ConfidenceUnits],
                        confidence2 |-> [num |-> c2, den |-> ConfidenceUnits]]
       \/ /\ op = "badge"
          /\ \E a \in 0..MaxScore, b \in 0..MaxScore :
                args = [overall |-> a, overall2 |-> b]
       \/ /\ op = "label"
          /\ \E i \in 0..2 : args = [class_index |-> i]
    /\ df = Unused
    /\ df0 = Unused
    /\ ret = Unused
    /\ ret2 = Unused
    /\ sensor_json = Unused
    /\ schema = Unused
    /\ probs = Unused
    /\ NoArtifactLoader
    /\ NoDatabase

\* overall = int(...) ; overall = max(0, min(100, overall))
CallOverallScore ==
    /\ op = "overall_score"
    /\ pc \in {"ready", "called"}
    /\ IF pc = "ready"
       THEN /\ ret' = OverallScore(args.label, args.confidence.num, args.confidence.den)
            /\ UNCHANGED ret2
       ELSE /\ ret2' = OverallScore(args.label, args.confidence2.num, args.confidence2.den)
            /\ UNCHANGED ret
    /\ pc' = IF pc = "ready" THEN "called" ELSE "again"
    /\ UNCHANGED <<op, df, df0, args, sensor_json, schema, probs, artifact_vars, db>>

\* badge = "Excellent" if overall >= 85 else "Improving" if overall >= 70 else "Needs Focus"
CallBadge ==
    /\ op = "badge"
    /\ pc \in {"ready", "called"}
    /\ IF pc = "ready"
       THEN ret' = Badge(args.overall) /\ UNCHANGED ret2
       ELSE ret2' = Badge(args.overall2) /\ UNCHANGED ret
    /\ pc' = IF pc = "ready" THEN "called" ELSE "again"
    /\ UNCHANGED <<op, df, df0, args, sensor_json, schema, probs, artifact_vars, db>>

\* the label of one class index on either path: label = LABELS[pred_idx] in
\* predict_from_dataframe, then map_classes_to_labels(class_indices) in
\* run_classification
CallLabel ==
    /\ op = "label"
    /\ pc \in {"ready", "called"}
    /\ IF pc = "ready"
       THEN ret' = LABELS[args.class_index + 1] /\ UNCHANGED ret2
       ELSE ret2' = map_classes_to_labels(<<args.class_index>>)[1] /\ UNCHANGED ret
    /\ pc' = IF pc = "ready" THEN "called" ELSE "again"
    /\ UNCHANGED <<op, df, df0, args, sensor_json, schema, probs, artifact_vars, db>>

NextScore == CallOverallScore \/ CallBadge \/ CallLabel

SpecScore == InitScore /\ [][NextScore]_vars

\* both evaluations of the score lines are done
ScoredTwice == op = "overall_score" /\ pc = "again"

\* C11: for every label and every confidence in [0,1] the overall score is an
\* integer in 0..100; for Normal it is at least 80 and never falls as the
\* confidence rises; for Aggressive and Drowsy it never rises as the
\* confidence rises.
C11_ScoreInRangeAndDirected ==
    ScoredTwice =>
        /\ ret \in 0..MaxScore
        /\ ret2 \in 0..MaxScore
        /\ args.label = "Normal" => ret >= 80 /\ ret2 >= 80
        /\ args.confidence.num <= args.confidence2.num =>
               IF args.label = "Normal" THEN ret <= ret2 ELSE ret >= ret2

\* an Aggressive session scored lower at the higher confidence
C11_Witness ==
    /\ ScoredTwice
    /\ args.label = "Aggressive"
    /\ args.confidence.num < args.confidence2.num
    /\ ret > ret2

\* the class index of normal driving in the normal-only reference set
NORMAL_LABEL == 2

\* C28: both inference paths give a class index the same behaviour label, and
\* the index labelled "Normal" is NORMAL_LABEL.
\* Fails: LABELS has Drowsy at 1 and Normal at 2, label_map the reverse.
C28_AsStated_SameLabelOnBothPaths ==
    (op = "label" /\ pc = "again") =>
        /\ ret = ret2
        /\ ret = "Normal" <=> args.class_index = NORMAL_LABEL
        /\ ret2 = "Normal" <=> args.class_index = NORMAL_LABEL

\* both evaluations of the badge lines are done
BadgedTwice == op = "badge" /\ pc = "again"

\* rank of a badge, worst first
BadgeRank(badge) ==
    IF badge = "Excellent" THEN 2 ELSE IF badge = "Improving" THEN 1 ELSE 0

\* C12: every score in 0..100 gets exactly one badge, Excellent from 85,
\* Improving for 70..84, Needs Focus below 70; and of two scores the higher
\* never gets the lower-ranked badge.
C12_BadgeTotalAndMonotonic ==
    BadgedTwice =>
        /\ ret \in {"Excellent", "Improving", "Needs Focus"}
        /\ ret = "Excellent"   <=> args.overall >= 85
        /\ ret = "Improving"   <=> args.overall \in 70..84
        /\ ret = "Needs Focus" <=> args.overall < 70
        /\ args.overall > args.overall2 => BadgeRank(ret) >= BadgeRank(ret2)

\* the two scores on either side of the Excellent boundary
C12_Witness ==
    /\ BadgedTwice
    /\ args.overall = 85 /\ ret = "Excellent"
    /\ args.overall2 = 84 /\ ret2 = "Improving"

(***************************************************************************)
(* The k-NN alerts: run_knn_alerts and build_session_summary               *)
(*                                                                         *)
(* A row of knn_feature_df is a record of its window's feature means, as   *)
(* integers.  A severity and a session score, which the code rounds to two *)
(* decimals, are integer counts of hundredths.  The mean k-NN distance of  *)
(* a window is what the loaded model reports: any value of KnnDistances.   *)
(***************************************************************************)

\* row.get(key, default)
Get(row, key, default) == IF key \in DOMAIN row THEN row[key] ELSE default

Abs(x) == IF x < 0 THEN -x ELSE x

\* the alert test with the threshold itself counted as abnormal
IsAbnormal_AtThreshold(knn_distance, threshold) == knn_distance >= threshold

\* if knn_distance[i] > threshold
IsAbnormal(knn_distance, threshold) == knn_distance > threshold

\* the scores dict of an abnormal window, in insertion order
CauseScores(row) ==
    LET harsh_score     == Abs(Get(row, "vert_acc_mean", 0)) + Abs(Get(row, "horiz_acc_mean", 0))
        overspeed_score == Get(row, "speed_kmh_mean", 0) + Get(row, "speed_ratio_mean", 0)
        unstable_score  == Abs(Get(row, "difcourse_mean", 0))
                             + Abs(Get(row, "horiz_acc_mean", 0))
                             + Abs(Get(row, "course_mean", 0))
        tailgating_score == IF Get(row, "ttc_front_mean", 10) < 2
                            THEN 2 - row.ttc_front_mean ELSE 0
    IN  << [cause |-> "Harsh Driving",     score |-> harsh_score],
           [cause |-> "Overspeeding",      score |-> overspeed_score],
           [cause |-> "Unstable Steering", score |-> unstable_score],
           [cause |-> "Tailgating",        score |-> tailgating_score] >>

\* max(scores, key=scores.get): the first key, in insertion order, of the
\* greatest score
TopCause(scores) ==
    scores[CHOOSE i \in 1..Len(scores) :
              /\ \A j \in 1..Len(scores) : scores[j].score <= scores[i].score
              /\ \A j \in 1..(i - 1) : scores[j].score < scores[i].score]

\* the names of the trigger features listed for a cause
TriggerFeatures(alert_cause) ==
    IF alert_cause = "Overspeeding" THEN <<"Speed (km/h)", "Speed Ratio">>
    ELSE IF alert_cause = "Harsh Driving" THEN <<"Vertical Acc", "Horizontal Acc">>
    ELSE IF alert_cause = "Unstable Steering" THEN <<"Course Change", "Horizontal Acc">>
    ELSE IF alert_cause = "Tailgating" THEN <<"TTC Front">>
    ELSE <<>>

\* round(num / den, 2) for num / den a count of hundredths: the nearest
\* integer, an exact half going to the even neighbour.  In exact arithmetic.
Round2(num, den) ==
    LET q == num \div den
        r == num % den
    IN  IF 2 * r < den THEN q
        ELSE IF 2 * r > den THEN q + 1
        ELSE IF q % 2 = 0 THEN q ELSE q + 1

\* round(x, 2) of a float x computed by division and addition: where the exact
\* value is a half, the float lies on one side of it or the other
Round2OfFloat(num, den) ==
    IF 2 * (num % den) = den THEN {num \div den, (num \div den) + 1}
    ELSE {Round2(num, den)}

\* run_knn_alerts(knn_feature_df, road_type), knn_distance being
\* distances.mean(axis=1) of what knn_model.kneighbors returned
run_knn_alerts(knn_feature_df, road_type, knn_distance) ==
    LET knn == load_knn_components(road_type)
    IN
    IF knn.status = "raise" THEN knn
    ELSE
    LET n   == Len(knn_feature_df)
        raw == [i \in 1..n |->
                  IF IsAbnormal(knn_distance[i], knn.value.threshold)
                  THEN LET top == TopCause(CauseScores(knn_feature_df[i]))
                       IN  [alert |-> "Abnormal", alert_cause |-> top.cause,
                            severity_raw |-> top.score]
                  ELSE [alert |-> "No alert", alert_cause |-> "None",
                        severity_raw |-> 0]] @@ <<>>
        raw_severities == {raw[i].severity_raw : i \in 1..n}
        min_s == CHOOSE m \in raw_severities : \A x \in raw_severities : m <= x
        max_s == CHOOSE m \in raw_severities : \A x \in raw_severities : m >= x
    IN  Return([i \in 1..n |->
                  [window_id        |-> knn_feature_df[i].window_id,
                   predicted_label  |-> knn_feature_df[i].predicted_label,
                   alert            |-> raw[i].alert,
                   alert_cause      |-> raw[i].alert_cause,
                   knn_distance     |-> knn_distance[i],
                   trigger_features |-> TriggerFeatures(raw[i].alert_cause),
                   severity         |-> IF max_s > min_s
                                        THEN Round2((raw[i].severity_raw - min_s) * 10000,
                                                    max_s - min_s)
                                        ELSE 0]])

\* the session score from the severities alone
SessionRiskScore_SeverityOnly(total_alerts, total_windows, severity_sum) ==
    Round2OfFloat(severity_sum, 2 * total_windows)

\* round((total_alerts / total_windows) * 50 + (avg_severity / 100) * 50, 2), in
\* hundredths, avg_severity being severity_sum / total_windows hundredths
SessionRiskScore(total_alerts, total_windows, severity_sum) ==
    Round2OfFloat(10000 * total_alerts + severity_sum, 2 * total_windows)

\* build_session_summary(result_df, road_type, session_id): every summary it
\* may return.  value_counts() counts the alert_cause of every row; among
\* causes of equal count its order, and so idxmax(), is the library's.
build_session_summary(result_df, road_type, session_id) ==
    LET total_windows == Len(result_df)
        rows          == 1..total_windows
        total_alerts  == Cardinality({k \in rows : result_df[k].alert = "Abnormal"})
        value_counts  == [c \in {result_df[k].alert_cause : k \in rows} |->
                            Cardinality({k \in rows : result_df[k].alert_cause = c})]
        severity_sum  == SumOver([k \in rows |-> <<result_df[k].severity>>], 1, total_windows)
        max_severity  == CHOOSE m \in {result_df[k].severity : k \in rows} :
                            \A k \in rows : result_df[k].severity <= m
    IN  { [session_id         |-> session_id,
           road_type          |-> road_type,
           total_windows      |-> total_windows,
           total_alerts       |-> total_alerts,
           dominant_alert     |-> dominant_alert,
           average_severity   |-> average_severity,
           max_severity       |-> max_severity,
           session_risk_score |-> session_risk_score]
          : dominant_alert \in
                IF total_alerts > 0
                THEN {c \in DOMAIN value_counts :
                         \A d \in DOMAIN value_counts : value_counts[d] <= value_counts[c]}
                ELSE {"None"},
            average_severity \in Round2OfFloat(severity_sum, total_windows),
            session_risk_score \in
                SessionRiskScore(total_alerts, total_windows, severity_sum) }

\* windows of a session handed to run_knn_alerts
MaxKnnWindows == 3

\* the mean speed of normal driving, km/h, and the mean course of a window
\* driven heading north-west, degrees
ReferenceSpeed == 100

NorthWestCourse == 350

\* mean k-NN distances the loaded model may report: from the lower threshold
\* to just above the higher one
KnnDistances == KnnThresholds.motor..(KnnThresholds.secondary + 1)

\* a window's row of feature means
KnnRow(label, speed, ratio, course, vert_acc, ttc) ==
    [predicted_label |-> label,
     vert_acc_mean   |-> vert_acc, horiz_acc_mean   |-> 0,
     speed_kmh_mean  |-> speed,    speed_ratio_mean |-> ratio,
     difcourse_mean  |-> 0,        course_mean      |-> course,
     ttc_front_mean  |-> ttc]

\* the windows tried: cruising north at the reference speed; the same with the
\* speed pushed to three times the reference, heading north or north-west;
\* standing still while braking hard; standing still close behind a vehicle
KnnRows ==
    {KnnRow("Normal", ReferenceSpeed, 1, 0, 0, 10)}
    \cup {KnnRow("Aggressive", 3 * ReferenceSpeed, 3, c, 0, 10) : c \in {0, NorthWestCourse}}
    \cup {KnnRow("Aggressive", 0, 0, 0, -2, 10), KnnRow("Drowsy", 0, 0, 0, 0, 1)}

\* knn_feature_df["window_id"] = list(range(len(knn_feature_df)))
WithWindowIds(rows) ==
    [i \in 1..Len(rows) |-> rows[i] @@ [window_id |-> i - 1]]

InitKnn ==
    /\ pc = "ready"
    /\ op = "run_knn_alerts"
    /\ \E n \in 1..MaxKnnWindows, rt \in {s_motorway, s_secondary, s_gravel} :
          \E rows \in [1..n -> KnnRows] :
             args = [knn_feature_df |-> WithWindowIds(rows), road_type |-> rt,
                     session_id |-> "session-1"]
    /\ df = Unused
    /\ df0 = Unused
    /\ ret = Unused
    /\ ret2 = Unused
    /\ sensor_json = Unused
    /\ schema = Unused
    /\ probs = Unused
    /\ NoArtifactLoader
    /\ NoDatabase

\* window_results = run_knn_alerts(knn_feature_df, road_type)
CallRunKnnAlerts ==
    /\ op = "run_knn_alerts"
    /\ pc = "ready"
    /\ ret' \in {run_knn_alerts(args.knn_feature_df, args.road_type, knn_distance)
                   : knn_distance \in [1..Len(args.knn_feature_df) -> KnnDistances]}
    /\ pc' = "called"
    /\ UNCHANGED <<op, df, df0, args, ret2, sensor_json, schema, probs, artifact_vars, db>>

\* session_summary = build_session_summary(pd.DataFrame(window_results), road_type, session_id)
CallBuildSessionSummary ==
    /\ op = "run_knn_alerts"
    /\ pc = "called"
    /\ ret.status = "return"
    /\ ret2' \in build_session_summary(ret.value, args.road_type, args.session_id)
    /\ pc' = "summarised"
    /\ UNCHANGED <<op, df, df0, args, ret, sensor_json, schema, probs, artifact_vars, db>>

NextKnn == CallRunKnnAlerts \/ CallBuildSessionSummary

SpecKnn == InitKnn /\ [][NextKnn]_vars

\* run_knn_alerts has returned its window results
AlertsReturned ==
    op = "run_knn_alerts" /\ pc \in {"called", "summarised"} /\ ret.status = "return"

\* C13: a window is reported "Abnormal" exactly when its mean k-NN distance is
\* strictly above the threshold loaded for the road type; that one threshold
\* serves every window, whatever the distances of the session.
C13_AbnormalIffAboveLoadedThreshold ==
    AlertsReturned =>
        LET threshold == IF StrLower(StrStrip(args.road_type)) = s_secondary
                         THEN KnnThresholds.secondary ELSE KnnThresholds.motor
        IN  \A k \in 1..Len(ret.value) :
               ret.value[k].alert = "Abnormal" <=> ret.value[k].knn_distance > threshold

\* a window exactly at the threshold is passed, another above it is flagged
C13_Witness ==
    /\ AlertsReturned
    /\ \E k, m \in 1..Len(ret.value) :
          /\ ret.value[k].knn_distance = KnnThresholds.motor
          /\ ret.value[k].alert = "No alert"
          /\ ret.value[m].knn_distance > KnnThresholds.motor
          /\ ret.value[m].alert = "Abnormal"

\* C14: of two windows of a session the one with the larger k-NN distance
\* never has the smaller severity, and every severity lies in [0, 100].
\* Fails: the severity is the flagged window's greatest cause score, scaled
\* over the session; the distance only decides whether the window is flagged.
C14_AsStated_SeverityMonotoneInDistance ==
    AlertsReturned =>
        \A k, m \in 1..Len(ret.value) :
           /\ ret.value[k].severity \in 0..10000
           /\ ret.value[k].knn_distance > ret.value[m].knn_distance
                 => ret.value[k].severity >= ret.value[m].severity

\* build_session_summary has returned
Summarised == op = "run_knn_alerts" /\ pc = "summarised"

\* the flagged windows of the results, and how many of them carry a cause
FlaggedWindows == {k \in 1..Len(ret.value) : ret.value[k].alert = "Abnormal"}

FlaggedCount(cause) ==
    Cardinality({k \in FlaggedWindows : ret.value[k].alert_cause = cause})

\* C15: with no flagged window the dominant cause is "None"; otherwise it is a
\* cause most frequent among the flagged windows, the unflagged ones not
\* counted.  (Stated for sessions where no two values of alert_cause are
\* equally frequent at the top, so that no tie is involved.)
\* Fails: value_counts() runs over every window, "None" included.
C15_AsStated_DominantAmongFlaggedOnly ==
    Summarised =>
        IF FlaggedWindows = {} THEN ret2.dominant_alert = "None"
        ELSE LET causes == {ret.value[k].alert_cause : k \in 1..Len(ret.value)}
                 count(c) == Cardinality({k \in 1..Len(ret.value) :
                                             ret.value[k].alert_cause = c})
                 tied == \E c, d \in causes :
                            /\ c # d
                            /\ count(c) = count(d)
                            /\ \A e \in causes : count(e) <= count(c)
             IN  tied \/ /\ ret2.dominant_alert # "None"
                         /\ \A c \in causes :
                               FlaggedCount(c) <= FlaggedCount(ret2.dominant_alert)

\* sum of the reported severities, in hundredths
ReportedSeveritySum ==
    SumOver([k \in 1..Len(ret.value) |-> <<ret.value[k].severity>>], 1, Len(ret.value))

\* C16: the session risk score is 50 * (flagged / total) + 50 * (mean
\* severity / 100) rounded to two decimals (within half a hundredth of it),
\* lies in [0, 100], is 0 when no window is flagged, and total_alerts never
\* exceeds total_windows.
C16_RiskIsRoundedWeightedSum ==
    Summarised =>
        LET n     == ret2.total_windows
            exact == 10000 * ret2.total_alerts + ReportedSeveritySum   \* times 2n
        IN  /\ n = Len(ret.value)
            /\ ret2.total_alerts = Cardinality(FlaggedWindows)
            /\ ret2.total_alerts <= n
            /\ Abs(2 * n * ret2.session_risk_score - exact) <= n
            /\ ret2.session_risk_score \in 0..10000
            /\ FlaggedWindows = {} => ret2.session_risk_score = 0

\* C16 as stated: the reported score is the weighted sum itself
C16_AsStated_RiskEqualsWeightedSum ==
    Summarised =>
        2 * ret2.total_windows * ret2.session_risk_score
            = 10000 * ret2.total_alerts + ReportedSeveritySum

\* some but not all windows flagged, and a weighted sum that is not a whole
\* number of hundredths
C16_Witness ==
    /\ Summarised
    /\ ret2.total_alerts \in 1..(ret2.total_windows - 1)
    /\ ret2.session_risk_score > 0
    /\ (10000 * ret2.total_alerts + ReportedSeveritySum) % (2 * ret2.total_windows) # 0

\* C18: a window whose speed_kmh mean is three times the reference, the other
\* features in their normal range, has Overspeeding as its cause once flagged.
\* Fails: the course mean, a heading in degrees, is added to the unstable
\* score and outweighs speed_kmh + speed_ratio.
C18_AsStated_PushedSpeedRanksOverspeed ==
    AlertsReturned =>
        \A k \in 1..Len(ret.value) :
           (/\ args.knn_feature_df[k].speed_kmh_mean = 3 * ReferenceSpeed
            /\ ret.value[k].alert = "Abnormal")
              => ret.value[k].alert_cause = "Overspeeding"

(***************************************************************************)
(* The contributions of the phase 3 notebook:                              *)
(* compute_feature_contributions and compute_cause_contributions           *)
(*                                                                         *)
(* One window.  Z is its row of z-scores as the fitted scaler returns it,  *)
(* in whole units, in the order of feature_cols.  A contribution is the    *)
(* exact fraction [num, den].                                              *)
(***************************************************************************)

\* z-scores tried: -MaxZ..MaxZ
MaxZ == 2

CAUSE_GROUPS ==
    ("Overspeed" :> {"speed_kmh_mean", "speed_ratio_mean", "speed_rel_mean"})
    @@ ("Tailgating" :> {"dist_front_mean", "ttc_front_mean", "num_vehicles_mean"})
    @@ ("Harsh maneuvers" :> {"acc_x_mean", "acc_y_mean", "acc_z_mean",
                              "acc_x_kf_mean", "acc_y_kf_mean", "acc_z_kf_mean"})
    @@ ("Unstable steering" :> {"difcourse_mean", "yaw_mean"})

\* the behavioural features of the windows tried: one of each cause group and
\* one of no group
ContribFeatureCols ==
    <<"speed_kmh_mean", "ttc_front_mean", "acc_x_mean", "difcourse_mean", "pitch_mean">>

\* the sum of a tuple of integers
SumOf(values) == SumOver([k \in 1..Len(values) |-> <<values[k]>>], 1, Len(values))

\* the contributions without the squaring
compute_feature_contributions_Unsquared(Z) ==
    LET total == SumOf(Z)
    IN  [k \in 1..Len(Z) |->
            IF total = 0 THEN [num |-> 0, den |-> 1]
            ELSE [num |-> Z[k], den |-> total]]

\* compute_feature_contributions for one window: contrib = Z ** 2, divided by
\* the row sum; a row sum of 0 is replaced by NaN and the NaN quotients by 0
compute_feature_contributions(Z) ==
    LET contrib == [k \in 1..Len(Z) |-> Z[k] * Z[k]]
        total   == SumOf(contrib)
    IN  [k \in 1..Len(Z) |->
            IF total = 0 THEN [num |-> 0, den |-> 1]
            ELSE [num |-> contrib[k], den |-> total]]

\* compute_cause_contributions for one window: per cause the sum of the
\* contributions of its features present in the row, then divided by the sum
\* over the causes when that is positive.  The contributions of a row share
\* their denominator.
compute_cause_contributions(row, feature_cols, cause_groups) ==
    LET den == row[1].den
        cause_num(cause) ==
            SumOf([k \in 1..Len(row) |->
                     IF feature_cols[k] \in cause_groups[cause] THEN row[k].num ELSE 0])
        total == SumOf([i \in 1..4 |->
                          cause_num(<<"Overspeed", "Tailgating", "Harsh maneuvers",
                                      "Unstable steering">>[i])])
    IN  [cause \in DOMAIN cause_groups |->
            IF total > 0 THEN [num |-> cause_num(cause), den |-> total]
            ELSE [num |-> cause_num(cause), den |-> den]]

InitContrib ==
    /\ pc = "ready"
    /\ op = "contributions"
    /\ \E Z \in [1..Len(ContribFeatureCols) -> (-MaxZ)..MaxZ] :
          args = [Z |-> Z, feature_cols |-> ContribFeatureCols]
    /\ df = Unused
    /\ df0 = Unused
    /\ ret = Unused
    /\ ret2 = Unused
    /\ sensor_json = Unused
    /\ schema = Unused
    /\ probs = Unused
    /\ NoArtifactLoader
    /\ NoDatabase

\* contrib_norm = compute_feature_contributions(df, scaler, feature_cols)
CallComputeFeatureContributions ==
    /\ op = "contributions"
    /\ pc = "ready"
    /\ ret' = compute_feature_contributions(args.Z)
    /\ pc' = "called"
    /\ UNCHANGED <<op, df, df0, args, ret2, sensor_json, schema, probs, artifact_vars, db>>

\* cause_contributions = compute_cause_contributions(contrib_norm, filtered_cause_groups)
CallComputeCauseContributions ==
    /\ op = "contributions"
    /\ pc = "called"
    /\ ret2' = compute_cause_contributions(ret, args.feature_cols, CAUSE_GROUPS)
    /\ pc' = "again"
    /\ UNCHANGED <<op, df, df0, args, ret, sensor_json, schema, probs, artifact_vars, db>>

NextContrib == CallComputeFeatureContributions \/ CallComputeCauseContributions

SpecContrib == InitContrib /\ [][NextContrib]_vars

\* both contribution tables of the window are computed
Contributed == op = "contributions" /\ pc = "again"

\* C17: every per-feature and per-cause contribution of a window is
\* non-negative; the per-feature contributions sum to 1, or are all 0 when
\* every deviation is 0; the per-cause contributions sum to at most 1.
C17_ContributionsNonNegativeAndBounded ==
    Contributed =>
        LET features == 1..Len(ret)
            causes   == DOMAIN ret2
            cause_sum == ret2["Overspeed"].num + ret2["Tailgating"].num
                           + ret2["Harsh maneuvers"].num + ret2["Unstable steering"].num
        IN  /\ \A k \in features : ret[k].num >= 0 /\ ret[k].den > 0
            /\ \A c \in causes : ret2[c].num >= 0 /\ ret2[c].den > 0
            /\ IF \A k \in features : args.Z[k] = 0
               THEN \A k \in features : ret[k].num = 0
               ELSE /\ \A k \in features : ret[k].den = ret[1].den
                    /\ SumOf([k \in features |-> ret[k].num]) = ret[1].den
            /\ \A c \in causes : ret2[c].den = ret2.Overspeed.den
            /\ cause_sum <= ret2.Overspeed.den

\* a window that deviates both in a grouped feature, below the mean, and in
\* the feature of no group
C17_Witness ==
    /\ Contributed
    /\ args.Z[1] < 0
    /\ args.Z[5] # 0
    /\ ret[1].num > 0
    /\ ret2.Overspeed.num > 0
    /\ ret2.Overspeed.num < ret2.Overspeed.den

(***************************************************************************)
(* The artifact loader: load_artifacts under functools.lru_cache, called   *)
(* by predict_from_dataframe from the request threads of the backend       *)
(*                                                                         *)
(* An endpoint declared with def runs in a worker thread, so several       *)
(* predict_from_dataframe calls may be in progress at once.  lru_cache     *)
(* looks the key up, calls the function on a miss without holding a lock,  *)
(* and stores the result afterwards unless the key has appeared meanwhile. *)
(* An object loaded from disk carries the number of the load that made it. *)
(***************************************************************************)

\* request threads, each calling predict_from_dataframe once
MaxCalls == 2

Threads == 1..MaxCalls

\* the paths load_artifacts checks, in its order
ArtifactFiles ==
    <<"feature_schema.json", "motor/motor_model.keras", "secondary/secondary_model.keras",
      "motor/motor_scaler.pkl", "secondary/secondary_scaler.pkl">>

\* a complete feature_schema.json; its window_length is not the fallback's
FullSchema ==
    [feature_order |-> <<"speed_kmh", "acc_x">>, window_length |-> 1200, num_features |-> 2]

\* the schema files tried: complete, or lacking some of its fields
SchemaJsons ==
    {[k \in present |-> FullSchema[k]] :
        present \in {DOMAIN FullSchema, {"feature_order", "num_features"},
                     {"window_length", "num_features"}, {}}}

\* the artifact directories tried: complete, one file short, or empty
ArtifactDirs ==
    {Range(ArtifactFiles)} \cup {Range(ArtifactFiles) \ {f} : f \in Range(ArtifactFiles)} \cup {{}}

\* missing: the checked paths that do not exist, in the order checked
MissingFiles(files) ==
    SelectSeq(ArtifactFiles, LAMBDA f : f \notin files)

\* the rest of the body of load_artifacts, once every path exists: the dict
\* returned by load number run from the schema json found
LoadedBundle(json, run) ==
    LET feature_order == Get(json, "feature_order", <<>>)
    IN  [schema           |-> json,
         feature_order    |-> feature_order,
         window_length    |-> Get(json, "window_length", 2400),
         num_features     |-> Get(json, "num_features", Len(feature_order)),
         motor_model      |-> [file |-> ArtifactFiles[2], load |-> run],
         secondary_model  |-> [file |-> ArtifactFiles[3], load |-> run],
         motor_scaler     |-> [file |-> ArtifactFiles[4], load |-> run],
         secondary_scaler |-> [file |-> ArtifactFiles[5], load |-> run]]

InitLoad ==
    /\ op = "predict_from_dataframe"
    /\ pc = [t \in Threads |-> "ready"]
    /\ \E files \in ArtifactDirs, json \in SchemaJsons :
          disk = [files |-> files, schema |-> json]
    /\ cache = [entries |-> <<>>, hits |-> 0, misses |-> 0]
    /\ local = [t \in Threads |-> Unused]
    /\ ret = [t \in Threads |-> Unused]
    /\ ret2 = [t \in Threads |-> Unused]
    /\ df = Unused
    /\ df0 = Unused
    /\ args = Unused
    /\ sensor_json = Unused
    /\ schema = Unused
    /\ probs = Unused
    /\ db = Unused

\* art = load_artifacts(): the cache lookup.  A hit returns the cached dict; a
\* miss counts and enters the function
LookupCache(t) ==
    /\ pc[t] = "ready"
    /\ IF cache.entries # <<>>
       THEN /\ cache' = [cache EXCEPT !.hits = @ + 1]
            /\ ret' = [ret EXCEPT ![t] = Return(cache.entries[1])]
            /\ pc' = [pc EXCEPT ![t] = "loaded"]
            /\ UNCHANGED local
       ELSE /\ cache' = [cache EXCEPT !.misses = @ + 1]
            /\ local' = [local EXCEPT ![t] = [run |-> cache.misses + 1]]
            /\ pc' = [pc EXCEPT ![t] = "exists"]
            /\ UNCHANGED ret
    /\ UNCHANGED <<op, df, df0, args, ret2, sensor_json, schema, probs, db, disk>>

\* the os.path.exists loop, and the raise when a path is missing: the
\* exception passes through lru_cache, which stores nothing, and through
\* predict_from_dataframe
CheckFilesExist(t) ==
    /\ pc[t] = "exists"
    /\ LET missing == MissingFiles(disk.files)
       IN  IF missing # <<>>
           THEN /\ ret' = [ret EXCEPT ![t] = Raise("FileNotFoundError", missing)]
                /\ pc' = [pc EXCEPT ![t] = "done"]
           ELSE /\ pc' = [pc EXCEPT ![t] = "read"]
                /\ UNCHANGED ret
    /\ UNCHANGED <<op, df, df0, args, ret2, sensor_json, schema, probs, db, disk, cache, local>>

\* json.load, keras.models.load_model twice, joblib.load twice, return {...}
LoadFromDisk(t) ==
    /\ pc[t] = "read"
    /\ local' = [local EXCEPT ![t] = [run    |-> local[t].run,
                                      result |-> LoadedBundle(disk.schema, local[t].run)]]
    /\ pc' = [pc EXCEPT ![t] = "store"]
    /\ UNCHANGED <<op, df, df0, args, ret, ret2, sensor_json, schema, probs, db, disk, cache>>

\* back in lru_cache: the result is stored unless the key was stored during
\* the call; either way the caller gets the result of its own call
StoreInCache(t) ==
    /\ pc[t] = "store"
    /\ cache' = IF cache.entries # <<>> THEN cache
                ELSE [cache EXCEPT !.entries = <<local[t].result>>]
    /\ ret' = [ret EXCEPT ![t] = Return(local[t].result)]
    /\ pc' = [pc EXCEPT ![t] = "loaded"]
    /\ UNCHANGED <<op, df, df0, args, ret2, sensor_json, schema, probs, db, disk, local>>

\* predict_from_dataframe reads the dict: feature_cols, window_size, and the
\* model and scaler of the road type
UseArtifacts(t) ==
    /\ pc[t] = "loaded"
    /\ \E use_motor \in BOOLEAN :
          LET art == ret[t].value
          IN  ret2' = [ret2 EXCEPT ![t] =
                          [feature_cols |-> art.feature_order,
                           window_size  |-> art.window_length,
                           model  |-> IF use_motor THEN art.motor_model
                                      ELSE art.secondary_model,
                           scaler |-> IF use_motor THEN art.motor_scaler
                                      ELSE art.secondary_scaler]]
    /\ pc' = [pc EXCEPT ![t] = "done"]
    /\ UNCHANGED <<op, df, df0, args, ret, sensor_json, schema, probs, db, disk, cache, local>>

\* the operator copies the missing files into the artifacts directory
InstallArtifacts ==
    /\ op = "predict_from_dataframe"
    /\ disk # Unused
    /\ disk.files # Range(ArtifactFiles)
    /\ disk' = [disk EXCEPT !.files = Range(ArtifactFiles)]
    /\ UNCHANGED <<pc, op, df, df0, args, ret, ret2, sensor_json, schema, probs, db, cache, local>>

NextLoad ==
    \/ \E t \in Threads : LookupCache(t)
    \/ \E t \in Threads : CheckFilesExist(t)
    \/ \E t \in Threads : LoadFromDisk(t)
    \/ \E t \in Threads : StoreInCache(t)
    \/ \E t \in Threads : UseArtifacts(t)
    \/ InstallArtifacts

SpecLoad == InitLoad /\ [][NextLoad]_vars

\* thread t's load_artifacts call has returned a dict
GotArtifacts(t) == ret[t] # Unused /\ ret[t].status = "return"

\* C19: whenever a required artifact is missing - a file, or a schema field
\* such as window_length or feature_order - load_artifacts raises and
\* substitutes nothing; so a call that returned found both fields on disk.
\* Fails: schema.get(...) falls back to [] and 2400.
C19_AsStated_MissingArtifactRaises ==
    \A t \in Threads :
       GotArtifacts(t) =>
          /\ disk.files = Range(ArtifactFiles)
          /\ {"feature_order", "window_length"} \subseteq DOMAIN disk.schema

\* C20: the calls that got their artifacts all got the dict of one and the
\* same load, and no more than one load has run to its end.
\* Fails: two calls that both miss the empty cache both load.
C20_AsStated_OneSharedBundle ==
    /\ \A t, u \in Threads :
          GotArtifacts(t) /\ GotArtifacts(u)
             => ret[t].value.motor_model.load = ret[u].value.motor_model.load
    /\ Cardinality({t \in Threads : local[t] # Unused /\ "result" \in DOMAIN local[t]}) <= 1

(***************************************************************************)
(* The inference part of end_session, step by step                         *)
(*   backend/app/main.py        end_session, lines 1040-1045               *)
(*   backend/app/ml/predictor.py  predict_from_dataframe                   *)
(*                                                                         *)
(* Requests are served one after another, each on its own session.  What   *)
(* is outside the repository may fail: load_artifacts (files, TensorFlow), *)
(* scaler.transform and model.predict (shape or value errors raised by     *)
(* scikit-learn and Keras).  ret collects, per finished request, what      *)
(* predict_from_dataframe did and what end_session answered.               *)
(***************************************************************************)

\* requests served
MaxRequests == 2

\* what model.predict may return per window
SureVectors == {<<ProbUnits, 0, 0>>, <<0, 0, ProbUnits>>}

InitInfer ==
    /\ pc = "ready"
    /\ op = "end_session"
    /\ ret = <<>>
    /\ df = Unused
    /\ df0 = Unused
    /\ args = Unused
    /\ local = Unused
    /\ ret2 = Unused
    /\ sensor_json = Unused
    /\ schema = Unused
    /\ probs = Unused
    /\ db = Unused
    /\ disk = Unused
    /\ cache = Unused

\* end_session up to df = pd.read_csv(csv_path): the session's road type and
\* its stored dataset, of no row or of one window
ReadSessionCsv ==
    /\ pc = "ready"
    /\ Len(ret) < MaxRequests
    /\ \E rt \in {s_secondary, s_gravel}, n \in {0, 1} :
          /\ args' = [road_type |-> StrLower(StrStrip(rt)),
                      art |-> Artifacts(<<c_speed, c_acc>>, 1)]
          /\ df' = GenFrame(<<c_speed, c_acc>>, n)
    /\ df0' = df'
    /\ local' = [checked |-> FALSE, scaled |-> FALSE, invoked |-> FALSE, cause |-> "none"]
    /\ ret2' = Unused
    /\ probs' = Unused
    /\ pc' = "load"
    /\ UNCHANGED <<op, ret, sensor_json, schema, disk, cache, db>>

\* art = load_artifacts(): the bundle, or the loader's exception
LoadArtifactsCall ==
    /\ pc = "load"
    /\ \/ /\ pc' = "windows"
          /\ UNCHANGED <<ret2, local>>
       \/ /\ \E e \in {"FileNotFoundError", "RuntimeError"} :
                ret2' = Raise(e, "load_artifacts")
          /\ local' = [local EXCEPT !.cause = "artifacts"]
          /\ pc' = "except"
    /\ UNCHANGED <<op, df, df0, args, ret, sensor_json, schema, probs, db, disk, cache>>

\* model and scaler chosen by the road tag, label columns dropped, schema
\* columns enforced, X, _ = make_windows(...)
BuildWindows ==
    /\ pc = "windows"
    /\ LET pw == PredictWindows(df, args.road_type, args.art)
       IN  /\ local' = local @@ [pw |-> pw]
           /\ df' = pw.caller_df
    /\ pc' = "check"
    /\ UNCHANGED <<op, df0, args, ret, ret2, sensor_json, schema, probs, db, disk, cache>>

\* if X.shape[0] == 0: raise ValueError(...)
CheckWindowCount ==
    /\ pc = "check"
    /\ IF Len(local.pw.X) = 0
       THEN /\ ret2' = Raise("ValueError", "Not enough rows for ML window")
            /\ local' = [local EXCEPT !.cause = "insufficient"]
            /\ pc' = "except"
       ELSE /\ local' = [local EXCEPT !.checked = TRUE]
            /\ pc' = "scale"
            /\ UNCHANGED ret2
    /\ UNCHANGED <<op, df, df0, args, ret, sensor_json, schema, probs, db, disk, cache>>

\* X2 = scaler.transform(X2)
ScalerTransform ==
    /\ pc = "scale"
    /\ \/ /\ local' = [local EXCEPT !.scaled = TRUE]
          /\ pc' = "predict"
          /\ UNCHANGED ret2
       \/ /\ local' = [local EXCEPT !.scaled = TRUE, !.cause = "scaler"]
          /\ ret2' = Raise("ValueError", "scaler.transform")
          /\ pc' = "except"
    /\ UNCHANGED <<op, df, df0, args, ret, sensor_json, schema, probs, db, disk, cache>>

\* probs = model.predict(X_scaled, verbose=0), and the rest of the function
ModelPredict ==
    /\ pc = "predict"
    /\ \/ /\ \E p \in [1..Len(local.pw.X) -> SureVectors] :
                /\ probs' = p
                /\ ret2' = PredictResult(local.pw, p)
          /\ local' = [local EXCEPT !.invoked = TRUE]
          /\ pc' = "respond"
       \/ /\ \E e \in {"ValueError", "InvalidArgumentError"} :
                ret2' = Raise(e, "model.predict")
          /\ local' = [local EXCEPT !.invoked = TRUE, !.cause = "model"]
          /\ pc' = "except"
          /\ UNCHANGED probs
    /\ UNCHANGED <<op, df, df0, args, ret, sensor_json, schema, disk, cache, db>>

\* one finished request: its road tag, what happened inside
\* predict_from_dataframe, what it returned or raised, and the answer
Finished(response) ==
    [road_type |-> args.road_type, cause |-> local.cause, checked |-> local.checked,
     scaled |-> local.scaled, invoked |-> local.invoked,
     predict |-> ret2, response |-> response]

\* except Exception as e: raise HTTPException(status_code=500, ...)
HandleInferenceError ==
    /\ pc = "except"
    /\ ret' = Append(ret, Finished([status_code |-> 500,
                                    detail |-> <<"ML inference failed: ", ret2.message>>]))
    /\ pc' = "ready"
    /\ UNCHANGED <<op, df, df0, args, ret2, sensor_json, schema, probs, db, disk, cache, local>>

\* the result is stored and the analysis returned
RespondWithAnalysis ==
    /\ pc = "respond"
    /\ ret' = Append(ret, Finished([status_code |-> 200, status |-> "ok",
                                    analysis |-> [behavior |-> ret2.value.label,
                                                  overall  |-> ret2.value.overall,
                                                  badge    |-> ret2.value.badge]]))
    /\ pc' = "ready"
    /\ UNCHANGED <<op, df, df0, args, ret2, sensor_json, schema, probs, db, disk, cache, local>>

NextInfer ==
    \/ ReadSessionCsv
    \/ LoadArtifactsCall
    \/ BuildWindows
    \/ CheckWindowCount
    \/ ScalerTransform
    \/ ModelPredict
    \/ HandleInferenceError
    \/ RespondWithAnalysis

SpecInfer == InitInfer /\ [][NextInfer]_vars

\* C21: the road type is validated and the window count checked before the
\* first scaler transform or model invocation.
\* Fails in predict_from_dataframe: it has no road-type validation; a tag it
\* does not know selects the secondary model, which is then run.
C21_AsStated_ValidatedBeforeFirstTransform ==
    \A k \in 1..Len(ret) :
       ret[k].scaled => ret[k].checked /\ Recognised(ret[k].road_type)

\* C22: the answer to a session too short for a window differs in kind (its
\* status) from the answer to a failed artifact load or model execution.
\* Fails: end_session turns every exception into status 500.
C22_AsStated_InsufficientDataHasOwnKind ==
    \A j, k \in 1..Len(ret) :
       (ret[j].cause = "insufficient" /\ ret[k].cause \in {"artifacts", "scaler", "model"})
          => ret[j].response.status_code # ret[k].response.status_code

(***************************************************************************)
(* Sessions                                                                *)
(*   backend/app/main.py   start_session (966-1015), end_session           *)
(*                         (1018-1101)                                     *)
(*   backend/app/database.py  the collections and their indexes: unique on *)
(*                         session_id and booking_id, not on a session's   *)
(*                         instructor or a result's session                *)
(*                                                                         *)
(* The handlers are plain def endpoints, which FastAPI runs on a thread    *)
(* pool: requests interleave between any two database calls.  Each         *)
(* database call is one atomic step; nothing else in the handlers is       *)
(* shared.  A request's position is pc[r], its arguments args[r], the      *)
(* document it fetched local[r], its answer ret[r].                        *)
(***************************************************************************)

\* requests in flight
MaxDbRequests == 2

DbRequests == 1..MaxDbRequests

Instructors == {"ins1", "ins2"}

\* the session the database starts with, and a session id nobody has
RunningSession == 0
NoSuchSession == 99

HTTPException(status_code, detail) == [status_code |-> status_code, detail |-> detail]

Ok(body) == [status_code |-> 200, status |-> "ok"] @@ body

\* instructor ins1 has one session running on booking b0 and one further
\* confirmed booking b1
InitSessions ==
    /\ db = [bookings |-> [b \in {"b0", "b1"} |->
                              IF b = "b0"
                              THEN [instructor_id |-> "ins1", status |-> "in_progress",
                                    session_id |-> RunningSession]
                              ELSE [instructor_id |-> "ins1", status |-> "confirmed",
                                    session_id |-> None]],
             sessions |-> <<[session_id |-> RunningSession, booking_id |-> "b0",
                             instructor_id |-> "ins1", status |-> "active"]>>,
             results |-> <<>>,
             total_sessions |-> [i \in Instructors |-> 0]]
    /\ pc = [r \in DbRequests |-> "idle"]
    /\ args = [r \in DbRequests |-> Unused]
    /\ local = [r \in DbRequests |-> Unused]
    /\ ret = [r \in DbRequests |-> Unused]
    /\ op = "sessions"
    /\ df = Unused
    /\ df0 = Unused
    /\ ret2 = Unused
    /\ sensor_json = Unused
    /\ schema = Unused
    /\ probs = Unused
    /\ disk = Unused
    /\ cache = Unused

session_vars == <<op, df, df0, ret2, sensor_json, schema, probs, disk, cache>>

\* sessions_col.find_one({"session_id": id}): the position of the first match,
\* 0 for None
FindSession(sessions, id) ==
    IF \E i \in 1..Len(sessions) : sessions[i].session_id = id
    THEN CHOOSE i \in 1..Len(sessions) :
            /\ sessions[i].session_id = id
            /\ \A j \in 1..(i - 1) : sessions[j].session_id # id
    ELSE 0

\* POST /sessions/{booking_id}/start: find the booking, 404, 403, 400
StartFindBooking(r) ==
    /\ pc[r] = "idle"
    /\ \E booking_id \in {"b0", "b1", "b9"}, user \in Instructors :
          /\ args' = [args EXCEPT ![r] = [handler |-> "start_session", id |-> booking_id,
                                          instructor_id |-> user]]
          /\ IF booking_id \notin DOMAIN db.bookings
             THEN /\ ret' = [ret EXCEPT ![r] = HTTPException(404, "Booking not found")]
                  /\ pc' = [pc EXCEPT ![r] = "done"]
                  /\ UNCHANGED local
             ELSE LET booking == db.bookings[booking_id]
                  IN  IF booking.instructor_id # user
                      THEN /\ ret' = [ret EXCEPT ![r] = HTTPException(403, "Not your booking")]
                           /\ pc' = [pc EXCEPT ![r] = "done"]
                           /\ UNCHANGED local
                      ELSE IF booking.status # "confirmed"
                      THEN /\ ret' = [ret EXCEPT ![r] =
                                         HTTPException(400, "Booking not in confirmed state")]
                           /\ pc' = [pc EXCEPT ![r] = "done"]
                           /\ UNCHANGED local
                      ELSE /\ local' = [local EXCEPT ![r] = booking]
                           /\ pc' = [pc EXCEPT ![r] = "demote"]
                           /\ UNCHANGED ret
    /\ UNCHANGED <<db, session_vars>>

\* sessions_col.update_many({instructor_id, status: "active"},
\*                          {"$set": {"status": "scheduled"}})
StartDemoteActive(r) ==
    /\ pc[r] = "demote"
    /\ db' = [db EXCEPT !.sessions =
                 [i \in 1..Len(db.sessions) |->
                     IF /\ db.sessions[i].instructor_id = args[r].instructor_id
                        /\ db.sessions[i].status = "active"
                     THEN [db.sessions[i] EXCEPT !.status = "scheduled"]
                     ELSE db.sessions[i]]]
    /\ pc' = [pc EXCEPT ![r] = "insert"]
    /\ UNCHANGED <<args, local, ret, session_vars>>

\* session_id = uuid.uuid4().hex; sessions_col.insert_one({..., "status": "active"})
StartInsertSession(r) ==
    /\ pc[r] = "insert"
    /\ db' = [db EXCEPT !.sessions =
                 Append(@, [session_id |-> r, booking_id |-> args[r].id,
                            instructor_id |-> args[r].instructor_id, status |-> "active"])]
    /\ pc' = [pc EXCEPT ![r] = "book"]
    /\ UNCHANGED <<args, local, ret, session_vars>>

\* bookings_col.update_one({booking_id}, {"$set": {session_id, status: "in_progress"}})
StartUpdateBooking(r) ==
    /\ pc[r] = "book"
    /\ db' = [db EXCEPT !.bookings[args[r].id] =
                 [@ EXCEPT !.session_id = r, !.status = "in_progress"]]
    /\ ret' = [ret EXCEPT ![r] = Ok([session_id |-> r])]
    /\ pc' = [pc EXCEPT ![r] = "done"]
    /\ UNCHANGED <<args, local, session_vars>>

\* POST /sessions/{session_id}/end: find the session, 404, 403, 400; the
\* client names a session that exists or one that does not
EndFindSession(r) ==
    /\ pc[r] = "idle"
    /\ \E session_id \in {db.sessions[i].session_id : i \in 1..Len(db.sessions)}
                            \cup {NoSuchSession},
          user \in Instructors :
          /\ args' = [args EXCEPT ![r] = [handler |-> "end_session", id |-> session_id,
                                          instructor_id |-> user]]
          /\ LET found == FindSession(db.sessions, session_id)
                 session == db.sessions[found]
             IN  IF found = 0
                 THEN /\ ret' = [ret EXCEPT ![r] = HTTPException(404, "Session not found")]
                      /\ pc' = [pc EXCEPT ![r] = "done"]
                      /\ UNCHANGED local
                 ELSE IF session.instructor_id # user
                 THEN /\ ret' = [ret EXCEPT ![r] = HTTPException(403, "Not your session")]
                      /\ pc' = [pc EXCEPT ![r] = "done"]
                      /\ UNCHANGED local
                 ELSE IF session.status # "active"
                 THEN /\ ret' = [ret EXCEPT ![r] = HTTPException(400, "Session is not active")]
                      /\ pc' = [pc EXCEPT ![r] = "done"]
                      /\ UNCHANGED local
                 ELSE /\ local' = [local EXCEPT ![r] = session]
                      /\ pc' = [pc EXCEPT ![r] = "predict"]
                      /\ UNCHANGED ret
    /\ UNCHANGED <<db, session_vars>>

\* ml_out = predict_from_dataframe(df, road_type), or HTTPException(500)
EndPredict(r) ==
    /\ pc[r] = "predict"
    /\ \/ /\ pc' = [pc EXCEPT ![r] = "store"]
          /\ UNCHANGED ret
       \/ /\ ret' = [ret EXCEPT ![r] = HTTPException(500, "ML inference failed")]
          /\ pc' = [pc EXCEPT ![r] = "done"]
    /\ UNCHANGED <<db, args, local, session_vars>>

\* ins = results_col.insert_one(result_doc)
EndInsertResult(r) ==
    /\ pc[r] = "store"
    /\ db' = [db EXCEPT !.results =
                 Append(@, [session_id |-> args[r].id, booking_id |-> local[r].booking_id,
                            instructor_id |-> local[r].instructor_id])]
    /\ pc' = [pc EXCEPT ![r] = "complete"]
    /\ UNCHANGED <<args, local, ret, session_vars>>

\* sessions_col.update_one({session_id}, {"$set": {"status": "completed"}})
EndCompleteSession(r) ==
    /\ pc[r] = "complete"
    /\ db' = [db EXCEPT !.sessions =
                 [i \in 1..Len(db.sessions) |->
                     IF i = FindSession(db.sessions, args[r].id)
                     THEN [db.sessions[i] EXCEPT !.status = "completed"]
                     ELSE db.sessions[i]]]
    /\ pc' = [pc EXCEPT ![r] = "complete_booking"]
    /\ UNCHANGED <<args, local, ret, session_vars>>

\* bookings_col.update_one({booking_id}, {"$set": {"status": "completed"}})
EndCompleteBooking(r) ==
    /\ pc[r] = "complete_booking"
    /\ db' = [db EXCEPT !.bookings[local[r].booking_id] = [@ EXCEPT !.status = "completed"]]
    /\ pc' = [pc EXCEPT ![r] = "count"]
    /\ UNCHANGED <<args, local, ret, session_vars>>

\* instructor_profiles_col.update_one({instructor_id}, {"$inc": {"total_sessions": 1}})
EndCountSession(r) ==
    /\ pc[r] = "count"
    /\ db' = [db EXCEPT !.total_sessions[local[r].instructor_id] = @ + 1]
    /\ ret' = [ret EXCEPT ![r] = Ok([session_id |-> args[r].id])]
    /\ pc' = [pc EXCEPT ![r] = "done"]
    /\ UNCHANGED <<args, local, session_vars>>

NextSessions ==
    \/ \E r \in DbRequests : StartFindBooking(r)
    \/ \E r \in DbRequests : StartDemoteActive(r)
    \/ \E r \in DbRequests : StartInsertSession(r)
    \/ \E r \in DbRequests : StartUpdateBooking(r)
    \/ \E r \in DbRequests : EndFindSession(r)
    \/ \E r \in DbRequests : EndPredict(r)
    \/ \E r \in DbRequests : EndInsertResult(r)
    \/ \E r \in DbRequests : EndCompleteSession(r)
    \/ \E r \in DbRequests : EndCompleteBooking(r)
    \/ \E r \in DbRequests : EndCountSession(r)

SpecSessions == InitSessions /\ [][NextSessions]_vars

ActiveSessions(instructor) ==
    {i \in 1..Len(db.sessions) : /\ db.sessions[i].instructor_id = instructor
                                 /\ db.sessions[i].status = "active"}

\* C25: after any interleaving of start_session and end_session requests
\* each instructor has at most one session with status "active".
\* Fails: two start_session requests of one instructor both run update_many
\* before either inserts.
C25_AsStated_OneActiveSessionPerInstructor ==
    \A instructor \in Instructors : Cardinality(ActiveSessions(instructor)) <= 1

ResultsOf(session_id) ==
    {i \in 1..Len(db.results) : db.results[i].session_id = session_id}

\* C27: under any interleaving of end_session requests for one session at
\* most one result document is stored for it and total_sessions is
\* incremented at most once for it.
\* Fails: two end_session requests both read status "active" before either
\* writes "completed".
C27_AsStated_OneResultOneIncrement ==
    /\ \A i \in 1..Len(db.sessions) : Cardinality(ResultsOf(db.sessions[i].session_id)) <= 1
    /\ \A instructor \in Instructors :
          db.total_sessions[instructor]
             <= Cardinality({i \in 1..Len(db.sessions) :
                                /\ db.sessions[i].instructor_id = instructor
                                /\ db.sessions[i].status = "completed"})

(***************************************************************************)
(* Bookings                                                                *)
(*   backend/app/main.py   book_slot (453-496), cancel_booking (523-551)   *)
(*   backend/app/database.py  bookings_col has no unique index on slot_id  *)
(*                                                                         *)
(* Same conventions as the sessions: one step per database call.           *)
(***************************************************************************)

Trainees == {"t1", "t2"}

\* the booking the database starts with, and a booking id nobody has
FirstBooking == 0
NoSuchBooking == 99

\* instructor ins1 offers two slots: a1 is open, a2 is booked by trainee t1
InitBookings ==
    /\ db = [availability |-> [a \in {"a1", "a2"} |->
                                  IF a = "a1"
                                  THEN [instructor_id |-> "ins1", status |-> "open",
                                        booked_by |-> None]
                                  ELSE [instructor_id |-> "ins1", status |-> "booked",
                                        booked_by |-> <<"t1">>]],
             bookings |-> <<[booking_id |-> FirstBooking, slot_id |-> "a2",
                             trainee_id |-> "t1", instructor_id |-> "ins1",
                             status |-> "confirmed"]>>]
    /\ pc = [r \in DbRequests |-> "idle"]
    /\ args = [r \in DbRequests |-> Unused]
    /\ local = [r \in DbRequests |-> Unused]
    /\ ret = [r \in DbRequests |-> Unused]
    /\ op = "bookings"
    /\ df = Unused
    /\ df0 = Unused
    /\ ret2 = Unused
    /\ sensor_json = Unused
    /\ schema = Unused
    /\ probs = Unused
    /\ disk = Unused
    /\ cache = Unused

\* bookings_col.find_one({"booking_id": id}): the position of the first
\* match, 0 for None
FindBooking(bookings, id) ==
    IF \E i \in 1..Len(bookings) : bookings[i].booking_id = id
    THEN CHOOSE i \in 1..Len(bookings) :
            /\ bookings[i].booking_id = id
            /\ \A j \in 1..(i - 1) : bookings[j].booking_id # id
    ELSE 0

\* POST /bookings: find the slot, 404, 400 when it is not open
BookFindSlot(r) ==
    /\ pc[r] = "idle"
    /\ \E slot_id \in {"a1", "a2", "a9"}, trainee \in Trainees :
          /\ args' = [args EXCEPT ![r] = [handler |-> "book_slot", id |-> slot_id,
                                          user |-> trainee]]
          /\ IF slot_id \notin DOMAIN db.availability
             THEN /\ ret' = [ret EXCEPT ![r] = HTTPException(404, "Slot not found")]
                  /\ pc' = [pc EXCEPT ![r] = "done"]
                  /\ UNCHANGED local
             ELSE IF db.availability[slot_id].status # "open"
             THEN /\ ret' = [ret EXCEPT ![r] = HTTPException(400, "Slot is no longer available")]
                  /\ pc' = [pc EXCEPT ![r] = "done"]
                  /\ UNCHANGED local
             ELSE /\ local' = [local EXCEPT ![r] = db.availability[slot_id]]
                  /\ pc' = [pc EXCEPT ![r] = "mark"]
                  /\ UNCHANGED ret
    /\ UNCHANGED <<db, session_vars>>

\* availability_col.update_one({slot_id, status: "open"},
\*                             {"$set": {status: "booked", booked_by}}):
\* no document matches when the slot is no longer open; the result is not read
BookMarkSlot(r) ==
    /\ pc[r] = "mark"
    /\ db' = IF db.availability[args[r].id].status = "open"
             THEN [db EXCEPT !.availability[args[r].id] =
                      [@ EXCEPT !.status = "booked", !.booked_by = <<args[r].user>>]]
             ELSE db
    /\ pc' = [pc EXCEPT ![r] = "insert"]
    /\ UNCHANGED <<args, local, ret, session_vars>>

\* booking_id = uuid.uuid4().hex; bookings_col.insert_one({..., "status": "confirmed"})
BookInsertBooking(r) ==
    /\ pc[r] = "insert"
    /\ db' = [db EXCEPT !.bookings =
                 Append(@, [booking_id |-> r, slot_id |-> args[r].id,
                            trainee_id |-> args[r].user,
                            instructor_id |-> local[r].instructor_id,
                            status |-> "confirmed"])]
    /\ ret' = [ret EXCEPT ![r] = Ok([booking_id |-> r])]
    /\ pc' = [pc EXCEPT ![r] = "done"]
    /\ UNCHANGED <<args, local, session_vars>>

\* DELETE /bookings/{booking_id}: find the booking, 404, 403, 400
CancelFindBooking(r) ==
    /\ pc[r] = "idle"
    /\ \E booking_id \in {db.bookings[i].booking_id : i \in 1..Len(db.bookings)}
                            \cup {NoSuchBooking},
          user \in Trainees \cup Instructors :
          /\ args' = [args EXCEPT ![r] = [handler |-> "cancel_booking", id |-> booking_id,
                                          user |-> user]]
          /\ LET found == FindBooking(db.bookings, booking_id)
                 booking == db.bookings[found]
             IN  IF found = 0
                 THEN /\ ret' = [ret EXCEPT ![r] = HTTPException(404, "Booking not found")]
                      /\ pc' = [pc EXCEPT ![r] = "done"]
                      /\ UNCHANGED local
                 ELSE IF \/ user \in Trainees /\ booking.trainee_id # user
                         \/ user \in Instructors /\ booking.instructor_id # user
                 THEN /\ ret' = [ret EXCEPT ![r] = HTTPException(403, "Forbidden")]
                      /\ pc' = [pc EXCEPT ![r] = "done"]
                      /\ UNCHANGED local
                 ELSE IF booking.status # "confirmed"
                 THEN /\ ret' = [ret EXCEPT ![r] = HTTPException(400, "Cannot cancel this booking")]
                      /\ pc' = [pc EXCEPT ![r] = "done"]
                      /\ UNCHANGED local
                 ELSE /\ local' = [local EXCEPT ![r] = booking]
                      /\ pc' = [pc EXCEPT ![r] = "free"]
                      /\ UNCHANGED ret
    /\ UNCHANGED <<db, session_vars>>

\* availability_col.update_one({slot_id}, {"$set": {status: "open", booked_by: None}})
CancelFreeSlot(r) ==
    /\ pc[r] = "free"
    /\ db' = [db EXCEPT !.availability[local[r].slot_id] =
                 [@ EXCEPT !.status = "open", !.booked_by = None]]
    /\ pc' = [pc EXCEPT ![r] = "cancel"]
    /\ UNCHANGED <<args, local, ret, session_vars>>

\* bookings_col.update_one({booking_id}, {"$set": {"status": "cancelled"}})
CancelMarkBooking(r) ==
    /\ pc[r] = "cancel"
    /\ db' = [db EXCEPT !.bookings =
                 [i \in 1..Len(db.bookings) |->
                     IF i = FindBooking(db.bookings, args[r].id)
                     THEN [db.bookings[i] EXCEPT !.status = "cancelled"]
                     ELSE db.bookings[i]]]
    /\ ret' = [ret EXCEPT ![r] = [status_code |-> 200, status |-> "ok"]]
    /\ pc' = [pc EXCEPT ![r] = "done"]
    /\ UNCHANGED <<args, local, session_vars>>

NextBookings ==
    \/ \E r \in DbRequests : BookFindSlot(r)
    \/ \E r \in DbRequests : BookMarkSlot(r)
    \/ \E r \in DbRequests : BookInsertBooking(r)
    \/ \E r \in DbRequests : CancelFindBooking(r)
    \/ \E r \in DbRequests : CancelFreeSlot(r)
    \/ \E r \in DbRequests : CancelMarkBooking(r)

SpecBookings == InitBookings /\ [][NextBookings]_vars

ConfirmedBookings(slot_id) ==
    {i \in 1..Len(db.bookings) : /\ db.bookings[i].slot_id = slot_id
                                 /\ db.bookings[i].status = "confirmed"}

\* C26: each availability slot has at most one booking in status
\* "confirmed".
\* Fails: two book_slot requests both read the slot as open; the second
\* update_one matches nothing, and both insert a confirmed booking.
C26_AsStated_OneConfirmedBookingPerSlot ==
    \A slot_id \in DOMAIN db.availability : Cardinality(ConfirmedBookings(slot_id)) <= 1

(***************************************************************************)
(* Fuzzy intensity and alerts                                              *)
(*   ml-model/notebooks/phase3_OUTDATED.py   triangular_mf, trapezoidal_mf,*)
(*       fuzzify_inputs, tsk_output, compute_intensity, normalize_severity,*)
(*       generate_alert                                                    *)
(*                                                                         *)
(* Floats are exact fractions [num, den] with den > 0; the breakpoints of  *)
(* the membership functions and the rule outputs, which the source writes  *)
(* with two decimals, are counted in hundredths.                           *)
(***************************************************************************)

RECURSIVE Gcd(_, _)

Gcd(a, b) == IF b = 0 THEN a ELSE With(<<a, b>>, LAMBDA ab : Gcd(ab[2], ab[1] % ab[2]))

\* the fraction num/den in lowest terms
Q(num, den) ==
    With(<<num, den>>, LAMBDA nd :
       With(Gcd(Abs(nd[1]), nd[2]), LAMBDA g :
          [num |-> nd[1] \div g, den |-> nd[2] \div g]))

QLess(x, y) == x.num * y.den < y.num * x.den

QMul(x, y) == Q(x.num * y.num, x.den * y.den)

\* (x - a) / (b - a) for a float x and breakpoints a < b in hundredths
Slope(x, a, b) == Q(100 * x.num - a * x.den, (b - a) * x.den)

hundredths(n) == Q(n, 100)

\* triangular_mf(x, a, b, c)
triangular_mf(x, a, b, c) ==
    IF QLess(x, hundredths(a)) \/ QLess(hundredths(c), x) THEN Q(0, 1)
    ELSE IF x = hundredths(b) THEN Q(1, 1)
    ELSE IF QLess(x, hundredths(b))
         THEN (IF b = a THEN Q(0, 1) ELSE Slope(x, a, b))
    ELSE IF c = b THEN Q(0, 1)
    ELSE Q(c * x.den - 100 * x.num, (c - b) * x.den)

\* trapezoidal_mf(x, a, b, c, d)
trapezoidal_mf(x, a, b, c, d) ==
    IF QLess(x, hundredths(a)) \/ QLess(hundredths(d), x) THEN Q(0, 1)
    ELSE IF ~QLess(x, hundredths(b)) /\ ~QLess(hundredths(c), x) THEN Q(1, 1)
    ELSE IF QLess(x, hundredths(b))
         THEN (IF b = a THEN Q(0, 1) ELSE Slope(x, a, b))
    ELSE IF d = c THEN Q(0, 1)
    ELSE Q(d * x.den - 100 * x.num, (d - c) * x.den)

\* fuzzify_inputs(severity, percentage)
fuzzify_inputs(severity, percentage) ==
    [s_low   |-> trapezoidal_mf(severity, 0, 0, 20, 40),
     s_med   |-> triangular_mf(severity, 30, 60, 85),
     s_high  |-> trapezoidal_mf(severity, 70, 85, 100, 100),
     p_small |-> trapezoidal_mf(percentage, 0, 0, 15, 30),
     p_med   |-> triangular_mf(percentage, 25, 45, 65),
     p_dom   |-> trapezoidal_mf(percentage, 45, 60, 100, 100)]

\* the rule outputs of compute_intensity, in hundredths
RuleOutputs == <<95, 80, 60, 10>>

RECURSIVE Lcm4(_, _)

\* least common denominator of the first n weights
Lcm4(weights, n) ==
    IF n = 0 THEN 1
    ELSE With(Lcm4(weights, n - 1), LAMBDA l :
            (l \div Gcd(l, weights[n].den)) * weights[n].den)

\* the weights as whole numbers in the same proportion
Proportions(weights) ==
    With(Lcm4(weights, Len(weights)), LAMBDA l :
       Array([i \in 1..Len(weights) |-> weights[i].num * (l \div weights[i].den)]))

\* tsk_output with the plain sum of the weighted outputs, not divided by
\* the sum of the weights
tsk_output_Undivided(weights, outputs) ==
    With(Proportions(weights), LAMBDA w :
       IF SumOf(w) > 0
       THEN Q(SumOf([i \in 1..Len(w) |-> w[i] * outputs[i]]),
              100 * Lcm4(weights, Len(weights)))
       ELSE Q(0, 1))

\* tsk_output(weights, outputs): (w*y).sum() / w.sum() if w.sum() > 0 else 0.0
tsk_output(weights, outputs) ==
    With(Proportions(weights), LAMBDA w :
       IF SumOf(w) > 0
       THEN Q(SumOf([i \in 1..Len(w) |-> w[i] * outputs[i]]), 100 * SumOf(w))
       ELSE Q(0, 1))

\* the firing strengths w1..w4 of compute_intensity
RuleWeights(severity, percentage) ==
    With(fuzzify_inputs(severity, percentage), LAMBDA m :
       <<QMul(m.s_high, m.p_dom), QMul(m.s_med, m.p_dom),
         QMul(m.s_high, m.p_med), m.p_small>>)

\* compute_intensity(severity, percentage)
compute_intensity(severity, percentage) ==
    With(RuleWeights(severity, percentage), LAMBDA weights :
       tsk_output(weights, RuleOutputs))

\* normalize_severity(knn_distance, q95, q99)
normalize_severity(knn_distance, q95, q99) ==
    IF knn_distance <= q95 THEN Q(0, 1)
    ELSE IF knn_distance >= q99 THEN Q(1, 1)
    ELSE Q(knn_distance - q95, q99 - q95)

\* round(x, 3), and round(x * 100, 1), in thousandths
RoundToThousandths(x) == Round2OfFloat(1000 * x.num, x.den)

\* the dictionary order of the causes
CauseNames == <<"Overspeed", "Tailgating", "Harsh maneuvers", "Unstable steering">>

\* one entry of cause_analysis, for the pair (cause, percentage)
CauseEntries(item, severity) ==
    {[cause |-> item[1], contribution |-> contribution, intensity |-> intensity] :
        contribution \in RoundToThousandths(item[2]),
        intensity \in UNION {RoundToThousandths(i) :
                                i \in {compute_intensity(severity, item[2])}}}

RECURSIVE CauseAnalyses(_, _, _)

\* cause_analysis after the loop over the first n items of causes_dict
CauseAnalyses(causes_dict, severity, n) ==
    IF n = 0 THEN {<<>>}
    ELSE {Append(analysis, entry) :
             analysis \in CauseAnalyses(causes_dict, severity, n - 1),
             entry \in CauseEntries(causes_dict[n], severity)}

\* cause_analysis left in the order of the dictionary
SortByIntensity_Unsorted(cause_analysis) == cause_analysis

\* cause_analysis.sort(key=lambda x: x['intensity'], reverse=True): a stable
\* sort, equal intensities keep their order
SortByIntensity(cause_analysis) ==
    Array([r \in 1..Len(cause_analysis) |->
             cause_analysis[CHOOSE i \in 1..Len(cause_analysis) :
                r = 1 + Cardinality({j \in 1..Len(cause_analysis) :
                                        \/ cause_analysis[j].intensity > cause_analysis[i].intensity
                                        \/ /\ j < i
                                           /\ cause_analysis[j].intensity
                                                 = cause_analysis[i].intensity})]])

\* the recommendations for the top causes of intensity above 0.5
Recommendations(top_causes) ==
    With(SelectSeq(top_causes, LAMBDA c : c.intensity > 500), LAMBDA significant :
       Array([k \in 1..Len(significant) |->
                [cause |-> significant[k].cause,
                 priority |-> IF significant[k].intensity > 750 THEN "high" ELSE "medium"]]))

\* the alert of an anomalous window, given its severity and its sorted
\* cause_analysis; the context, top_features and timestamp entries, which
\* copy values of the row, are left out
AnomalyAlert(row, severity, sorted) ==
    With(SubSeq(sorted, 1, Min(2, Len(sorted))), LAMBDA top_causes :
       {[window_id |-> row.name,
         alert_level |-> IF QLess(hundredths(70), severity) THEN "critical"
                         ELSE IF QLess(hundredths(40), severity) THEN "warning"
                         ELSE "caution",
         severity |-> reported,
         knn_distance |-> row.knn_distance,
         primary_cause |-> IF Len(top_causes) > 0 THEN top_causes[1].cause ELSE "Unknown",
         causes |-> top_causes,
         recommendations |-> Recommendations(top_causes)] :
           reported \in RoundToThousandths(severity)})

\* generate_alert(row, threshold, q95, q99, cause_contributions, top_features),
\* causes_dict being cause_contributions.loc[row.name] as a list of pairs; the
\* alerts it may return, each with the cause_analysis it was made from
generate_alert(row, threshold, q95, q99, causes_dict) ==
    IF ~(row.knn_distance > threshold)
    THEN {[alert |-> [window_id |-> row.name, alert_level |-> "normal", severity |-> 0,
                      knn_distance |-> row.knn_distance,
                      message |-> "Normal driving behavior",
                      causes |-> <<>>, recommendations |-> <<>>],
           cause_analysis |-> <<>>]}
    ELSE UNION {UNION {{[alert |-> alert, cause_analysis |-> cause_analysis] :
                          alert \in AnomalyAlert(row, severity, SortByIntensity(cause_analysis))} :
                   cause_analysis \in CauseAnalyses(causes_dict, severity, Len(causes_dict))} :
            severity \in {normalize_severity(row.knn_distance, q95, q99)}}

\* severities and shares are the multiples of 1/FuzzySteps in [0, 1]
FuzzySteps == 20

\* the distances between the quantiles q95 and q99 of the normal windows
AlertSpan == 4

\* cause shares are multiples of 1/AlertShareParts
AlertShareParts == 5

\* the rows of cause_contributions: the first n causes, with shares that sum
\* to 1 (normalised) or are all 0 (total 0, left as they are)
CauseDicts ==
    UNION {{Array([k \in 1..n |-> <<CauseNames[k], Q(parts[k], AlertShareParts)>>]) :
               parts \in {f \in [1..n -> 0..AlertShareParts] :
                             SumOf(f) \in {0, AlertShareParts}}} :
           n \in 0..Len(CauseNames)}

InitFuzzy ==
    /\ pc = "ready"
    /\ \/ /\ op = "compute_intensity"
          /\ \E s \in 0..FuzzySteps, p \in 0..FuzzySteps :
                args = [severity |-> Q(s, FuzzySteps), percentage |-> Q(p, FuzzySteps)]
       \/ /\ op = "generate_alert"
          /\ \E d \in 0..(2 * AlertSpan + 1), t \in {AlertSpan - 1, AlertSpan + 1},
                causes_dict \in CauseDicts :
                args = [row |-> [name |-> 0, knn_distance |-> d], threshold |-> t,
                        q95 |-> AlertSpan, q99 |-> 2 * AlertSpan,
                        causes_dict |-> causes_dict]
    /\ ret = Unused
    /\ df = Unused
    /\ df0 = Unused
    /\ ret2 = Unused
    /\ sensor_json = Unused
    /\ schema = Unused
    /\ probs = Unused
    /\ NoArtifactLoader
    /\ NoDatabase

CallComputeIntensity ==
    /\ pc = "ready"
    /\ op = "compute_intensity"
    /\ ret' = compute_intensity(args.severity, args.percentage)
    /\ pc' = "called"
    /\ UNCHANGED <<op, df, df0, args, ret2, sensor_json, schema, probs, artifact_vars, db>>

CallGenerateAlert ==
    /\ pc = "ready"
    /\ op = "generate_alert"
    /\ \E out \in generate_alert(args.row, args.threshold, args.q95, args.q99,
                                  args.causes_dict) :
          /\ ret' = out.alert
          /\ ret2' = out.cause_analysis
    /\ pc' = "called"
    /\ UNCHANGED <<op, df, df0, args, sensor_json, schema, probs, artifact_vars, db>>

NextFuzzy ==
    \/ CallComputeIntensity
    \/ CallGenerateAlert

SpecFuzzy == InitFuzzy /\ [][NextFuzzy]_vars

IntensityReturned == op = "compute_intensity" /\ pc = "called"

\* the rule weights of the call, as whole numbers in proportion, with their
\* common factor removed
FiringStrengths ==
    With(RuleWeights(args.severity, args.percentage), LAMBDA weights :
       With(Proportions(weights), LAMBDA w :
          With(Gcd(Gcd(w[1], w[2]), Gcd(w[3], w[4])), LAMBDA g :
             IF g = 0 THEN w ELSE Array([i \in 1..4 |-> w[i] \div g]))))

\* C24: for every severity and share in [0, 1] compute_intensity returns a
\* value in [0, 1] that is the firing-strength-weighted average of the four
\* rule outputs 0.95, 0.80, 0.60, 0.10 (rules: high severity and dominant,
\* medium severity and dominant, high severity and medium share, small
\* share), and returns 0 exactly when no rule fires.  With w the firing
\* strengths in whole numbers and the result num/den in lowest terms, the
\* result is the average when den divides 100 * sum(w) and
\* sum(w * output) = num * (100 * sum(w) / den).
C24_IntensityIsWeightedAverage ==
    IntensityReturned =>
       \A w \in {FiringStrengths}, m \in {fuzzify_inputs(args.severity, args.percentage)} :
           /\ 0 <= ret.num /\ ret.num <= ret.den
           /\ (w[1] > 0) = (m.s_high.num > 0 /\ m.p_dom.num > 0)
           /\ (w[2] > 0) = (m.s_med.num > 0 /\ m.p_dom.num > 0)
           /\ (w[3] > 0) = (m.s_high.num > 0 /\ m.p_med.num > 0)
           /\ (w[4] > 0) = (m.p_small.num > 0)
           /\ (100 * SumOf(w)) % ret.den = 0
           /\ SumOf([i \in 1..4 |-> w[i] * RuleOutputs[i]])
                 = ret.num * ((100 * SumOf(w)) \div ret.den)
           /\ (ret.num = 0) = (SumOf(w) = 0)

\* two rules fire and the result lies strictly between their outputs
C24_Witness ==
    /\ IntensityReturned
    /\ FiringStrengths[1] > 0 /\ FiringStrengths[3] > 0
    /\ FiringStrengths[2] = 0 /\ FiringStrengths[4] = 0
    /\ 60 * ret.den < 100 * ret.num /\ 100 * ret.num < 95 * ret.den

\* no rule fires and the result is 0
C24_WitnessNoRule ==
    /\ IntensityReturned
    /\ SumOf(FiringStrengths) = 0
    /\ ret.num = 0

AnomalyAlerted ==
    /\ op = "generate_alert"
    /\ pc = "called"
    /\ args.row.knn_distance > args.threshold

\* the positions in cause_analysis of the causes the alert returns
Returned == {i \in 1..Len(ret2) : \E k \in 1..Len(ret.causes) : ret.causes[k] = ret2[i]}

\* C23: for every anomalous window generate_alert returns at most two
\* causes, in order of non-increasing intensity, and no cause it leaves out
\* has a strictly higher intensity than one it returns; the primary cause is
\* the first returned; a cause has a recommendation exactly when it is among
\* the returned causes and its intensity is above 0.5.  The intensity of a
\* cause is the one the alert carries, rounded to three decimals.
C23_TopTwoCausesByIntensity ==
    AnomalyAlerted =>
       /\ Len(ret.causes) <= 2
       /\ Len(ret.causes) = Min(2, Len(args.causes_dict))
       /\ \A k \in 1..Len(ret.causes) : \E i \in 1..Len(ret2) : ret.causes[k] = ret2[i]
       /\ \A k \in 1..(Len(ret.causes) - 1) :
             ret.causes[k].intensity >= ret.causes[k + 1].intensity
       /\ \A i \in 1..Len(ret2) :
             i \notin Returned =>
                \A k \in 1..Len(ret.causes) : ret2[i].intensity <= ret.causes[k].intensity
       /\ Len(ret.causes) > 0 => ret.primary_cause = ret.causes[1].cause
       /\ \A n \in 1..Len(args.causes_dict) :
             (\E j \in 1..Len(ret.recommendations) :
                 ret.recommendations[j].cause = args.causes_dict[n][1])
             = (\E k \in 1..Len(ret.causes) :
                 /\ ret.causes[k].cause = args.causes_dict[n][1]
                 /\ ret.causes[k].intensity > 500)

\* four causes, the two returned are not the first two of the dictionary,
\* one of them has a recommendation and the other has none
C23_Witness ==
    /\ AnomalyAlerted
    /\ Len(ret2) = 4
    /\ Len(ret.causes) = 2
    /\ ret.causes[1].cause = CauseNames[3]
    /\ ret.causes[1].intensity > ret.causes[2].intensity
    /\ Len(ret.recommendations) = 1
    /\ \E i \in 1..4 : i \notin Returned /\ ret2[i].intensity < ret.causes[2].intensity

====
